---- MODULE Spec2Model ----
(***************************************************************************)
(* Model of the order-file pipeline of src/data_processing.py:             *)
(*   read_file_raw -> detect_columns -> parse_rows_to_items ->             *)
(*   process_tall_sizes -> sum_duplicates -> consolidate_items ->          *)
(*   enrich_items_with_descriptions                                        *)
(*                                                                         *)
(* Text is modelled as a sequence of one-character strings, so that        *)
(* strip(), upper(), re.split() and float() are computed character by      *)
(* character as the Python code computes them.                             *)
(***************************************************************************)
EXTENDS Integers, Sequences, FiniteSets, TLC

(***************************************************************************)
(* Bounds of the model.                                                    *)
(***************************************************************************)
\* Largest number of data rows of an input file.
MaxRows == 2

\* The calls of enrich_items_with_descriptions in one process.
MaxEnrichCalls == 2

\* The WorkerThreads started from one main window.
MaxWorkers == 2

(***************************************************************************)
(* Characters and the str methods the code uses.                           *)
(***************************************************************************)
LowerLetters ==
    <<"a","b","c","d","e","f","g","h","i","j","k","l","m",
      "n","o","p","q","r","s","t","u","v","w","x","y","z">>

UpperLetters ==
    <<"A","B","C","D","E","F","G","H","I","J","K","L","M",
      "N","O","P","Q","R","S","T","U","V","W","X","Y","Z">>

Digits == <<"0","1","2","3","4","5","6","7","8","9">>

\* str.isspace() on the characters of the input alphabet.
IsSpace(c) == c \in {" ", "\t"}

IsDigit(c) == \E i \in 1..10 : Digits[i] = c

\* The value of a decimal digit character.
DigitVal(c) == (CHOOSE i \in 1..10 : Digits[i] = c) - 1

\* str.upper() of one character.
UpperChar(c) ==
    IF \E i \in 1..26 : LowerLetters[i] = c
    THEN UpperLetters[CHOOSE i \in 1..26 : LowerLetters[i] = c]
    ELSE c

\* str.lower() of one character.
LowerChar(c) ==
    IF \E i \in 1..26 : UpperLetters[i] = c
    THEN LowerLetters[CHOOSE i \in 1..26 : UpperLetters[i] = c]
    ELSE c

\* str.upper()
Upper(s) == [i \in 1..Len(s) |-> UpperChar(s[i])]

\* str.lower()
Lower(s) == [i \in 1..Len(s) |-> LowerChar(s[i])]

\* str.lstrip()
RECURSIVE LStrip(_)
LStrip(s) ==
    IF s # <<>> /\ IsSpace(Head(s)) THEN LStrip(Tail(s)) ELSE s

\* str.rstrip()
RECURSIVE RStrip(_)
RStrip(s) ==
    IF s # <<>> /\ IsSpace(s[Len(s)]) THEN RStrip(SubSeq(s, 1, Len(s) - 1)) ELSE s

\* str.strip()
Strip(s) == RStrip(LStrip(s))

\* str.endswith(suffix)
EndsWith(s, suffix) ==
    /\ Len(s) >= Len(suffix)
    /\ SubSeq(s, Len(s) - Len(suffix) + 1, Len(s)) = suffix

\* `sub in s` for strings.
Contains(s, sub) ==
    \E i \in 1..(Len(s) - Len(sub) + 1) : SubSeq(s, i, i + Len(sub) - 1) = sub

\* The number of (possibly overlapping) places where sub occurs in s.
Occurrences(s, sub) ==
    Cardinality({i \in 1..(Len(s) - Len(sub) + 1) : SubSeq(s, i, i + Len(sub) - 1) = sub})

\* re.split(r'[\s\(]', s)[0]: the text before the first whitespace or '('.
RECURSIVE FirstToken(_)
FirstToken(s) ==
    IF s = <<>> \/ IsSpace(Head(s)) \/ Head(s) = "("
    THEN <<>>
    ELSE <<Head(s)>> \o FirstToken(Tail(s))

\* The suffix that process_tall_sizes appends.
TallSuffix == <<" ","-"," ","T","a","l","l">>

(***************************************************************************)
(* Size mapping and normalization.                                         *)
(***************************************************************************)
SIZE_MAP_NORMALIZE ==
    <<
       <<<<"S","M","A","L","L">>, <<"S">>>>,
       <<<<"M","E","D","I","U","M">>, <<"M">>>>,
       <<<<"L","A","R","G","E">>, <<"L">>>>,
       <<<<"E","X","T","R","A"," ","L","A","R","G","E">>, <<"X","L">>>>,
       <<<<"E","X","T","R","A","L","A","R","G","E">>, <<"X","L">>>>,
       <<<<"Y","X","S">>, <<"Y","X","S">>>>,
       <<<<"Y","-","X","S">>, <<"Y","X","S">>>>,
       <<<<"Y","S">>, <<"Y","S">>>>,
       <<<<"Y","-","S">>, <<"Y","S">>>>,
       <<<<"Y","M">>, <<"Y","M">>>>,
       <<<<"Y","-","M">>, <<"Y","M">>>>,
       <<<<"Y","L">>, <<"Y","L">>>>,
       <<<<"Y","-","L">>, <<"Y","L">>>>,
       <<<<"Y","X","L">>, <<"Y","X","L">>>>,
       <<<<"Y","-","X","L">>, <<"Y","X","L">>>>,
       <<<<"X","S">>, <<"X","S">>>>,
       <<<<"S">>, <<"S">>>>,
       <<<<"M">>, <<"M">>>>,
       <<<<"L">>, <<"L">>>>,
       <<<<"X","L">>, <<"X","L">>>>,
       <<<<"2","X","L">>, <<"2","X","L">>>>,
       <<<<"X","X","L">>, <<"2","X","L">>>>,
       <<<<"3","X","L">>, <<"3","X","L">>>>,
       <<<<"X","X","X","L">>, <<"3","X","L">>>>,
       <<<<"4","X","L">>, <<"4","X","L">>>>,
       <<<<"5","X","L">>, <<"5","X","L">>>>,
       <<<<"6","X","L">>, <<"6","X","L">>>>,
       <<<<"6","M">>, <<"6","M">>>>,
       <<<<"1","2","M">>, <<"1","2","M">>>>,
       <<<<"1","8","M">>, <<"1","8","M">>>>,
       <<<<"2","4","M">>, <<"2","4","M">>>>,
       <<<<"2","T">>, <<"2","T">>>>,
       <<<<"3","T">>, <<"3","T">>>>,
       <<<<"4","T">>, <<"4","T">>>>,
       <<<<"5","T">>, <<"5","T">>>>
    >>

\* `key in SIZE_MAP_NORMALIZE`
InSizeMap(key) ==
    \E i \in 1..Len(SIZE_MAP_NORMALIZE) : SIZE_MAP_NORMALIZE[i][1] = key

\* SIZE_MAP_NORMALIZE[key]
SizeMapGet(key) ==
    SIZE_MAP_NORMALIZE[CHOOSE i \in 1..Len(SIZE_MAP_NORMALIZE) :
                           SIZE_MAP_NORMALIZE[i][1] = key][2]

\* The table is searched with the word as written, and only a word it does
\* not hold is put in upper case.
parse_size_field_UpperLate(size_str) ==
    IF size_str = <<>>
    THEN <<>>
    ELSE LET size_clean == FirstToken(Strip(size_str))
         IN  IF InSizeMap(size_clean) THEN SizeMapGet(size_clean) ELSE Upper(size_clean)

parse_size_field(size_str) ==
    IF size_str = <<>>
    THEN <<>>
    ELSE LET size_clean == Upper(FirstToken(Strip(size_str)))
         IN  IF InSizeMap(size_clean) THEN SizeMapGet(size_clean) ELSE size_clean

ToddlerSizes == { <<"2","T">>, <<"3","T">>, <<"4","T">>, <<"5","T">> }

\* Every code of two letters or more that ends in 'T' is tall, the toddler
\* codes too.
is_tall_size_NoToddler(size) ==
    IF size = <<>> \/ Len(size) < 2
    THEN FALSE
    ELSE EndsWith(size, <<"T">>)

is_tall_size(size) ==
    IF size = <<>> \/ Len(size) < 2
    THEN FALSE
    ELSE IF size \in ToddlerSizes
         THEN FALSE
         ELSE EndsWith(size, <<"T">>)

get_base_size(tall_size) ==
    IF is_tall_size(tall_size)
    THEN SubSeq(tall_size, 1, Len(tall_size) - 1)
    ELSE tall_size

(***************************************************************************)
(* float(), int() and str() as parse_rows_to_items uses them.              *)
(* The literal grammar modelled: optional surrounding whitespace, an       *)
(* optional sign, then digits with an optional '.', or one of inf,         *)
(* infinity, nan in any letter case.  Exponent and underscore forms are    *)
(* outside the input alphabet of the model.                                *)
(***************************************************************************)
AllDigits(s) == \A i \in 1..Len(s) : IsDigit(s[i])

\* The value of a string of decimal digits (0 for the empty string).
RECURSIVE DigitsValue(_)
DigitsValue(s) ==
    IF s = <<>> THEN 0
    ELSE 10 * DigitsValue(SubSeq(s, 1, Len(s) - 1)) + DigitVal(s[Len(s)])

\* The text before the first '.', and the text after it.
RECURSIVE BeforeDot(_)
BeforeDot(s) ==
    IF s = <<>> \/ Head(s) = "." THEN <<>> ELSE <<Head(s)>> \o BeforeDot(Tail(s))

AfterDot(s) ==
    IF Len(BeforeDot(s)) >= Len(s) THEN <<>>
    ELSE SubSeq(s, Len(BeforeDot(s)) + 2, Len(s))

InfWords == { <<"i","n","f">>, <<"i","n","f","i","n","i","t","y">> }

NanWord == <<"n","a","n">>

\* float(s): kind "num" (a finite value sign * (ip + fraction)), "inf", "nan",
\* or "err" when float() raises ValueError.
ParseFloat(s) ==
    LET t    == Strip(s)
        neg  == t # <<>> /\ Head(t) = "-"
        body == IF t # <<>> /\ Head(t) \in {"+", "-"} THEN Tail(t) ELSE t
        ip   == BeforeDot(body)
        fp   == AfterDot(body)
    IN  IF Lower(body) \in InfWords
        THEN [kind |-> "inf", neg |-> neg, ip |-> 0, fracnz |-> FALSE]
        ELSE IF Lower(body) = NanWord
        THEN [kind |-> "nan", neg |-> neg, ip |-> 0, fracnz |-> FALSE]
        ELSE IF /\ AllDigits(ip)
                /\ AllDigits(fp)
                /\ Len(ip) + Len(fp) >= 1
        THEN [kind |-> "num", neg |-> neg, ip |-> DigitsValue(ip),
              fracnz |-> DigitsValue(fp) # 0]
        ELSE [kind |-> "err", neg |-> FALSE, ip |-> 0, fracnz |-> FALSE]

\* int(f) of a finite float: truncation toward zero.
IntOfFloat(f) == IF f.neg THEN 0 - f.ip ELSE f.ip

\* str(n) of a natural number.
RECURSIVE NatToStr(_)
NatToStr(n) ==
    IF n < 10 THEN <<Digits[n + 1]>>
    ELSE NatToStr(n \div 10) \o <<Digits[(n % 10) + 1]>>

\* str(n) of an integer.
IntToStr(n) == IF n < 0 THEN <<"-">> \o NatToStr(0 - n) ELSE NatToStr(n)

(***************************************************************************)
(* Column detection.                                                       *)
(***************************************************************************)
\* Python's None, for a column index that was not found.
None == -1

\* list.index(x), zero-based.
IndexOf(seq, x) == (CHOOSE i \in 1..Len(seq) : seq[i] = x /\ \A j \in 1..(i - 1) : seq[j] # x) - 1

InSeq(seq, x) == \E i \in 1..Len(seq) : seq[i] = x

QtyNames == << <<"q","t","y">>, <<"q","u","a","n","t","i","t","y">>, <<"c","o","u","n","t">> >>

SizeNames == << <<"s","i","z","e">> >>

ItemNumNames ==
    << <<"i","t","e","m"," ","n","u","m">>,
       <<"i","t","e","m","_","n","u","m">>,
       <<"i","t","e","m","n","u","m","b","e","r">>,
       <<"i","t","e","m"," ","n","u","m","b","e","r">>,
       <<"i","t","e","m">>,
       <<"s","t","y","l","e">>,
       <<"s","t","y","l","e"," ","n","u","m","b","e","r">> >>

ColorNames == << <<"c","o","l","o","r">>, <<"c","o","l","o","u","r">> >>

\* The leftmost column whose header is one of the names.
find_col_ByPosition(headers_lower, names) ==
    LET cols == { j \in 1..Len(headers_lower) :
                     \E k \in 1..Len(names) : headers_lower[j] = Lower(names[k]) }
    IN  IF cols = {} THEN None
        ELSE (CHOOSE j \in cols : \A c \in cols : j <= c) - 1

\* find_col(*names) over headers_lower.
RECURSIVE find_col(_, _)
find_col(headers_lower, names) ==
    IF names = <<>> THEN None
    ELSE IF InSeq(headers_lower, Lower(Head(names)))
         THEN IndexOf(headers_lower, Lower(Head(names)))
         ELSE find_col(headers_lower, Tail(names))

detect_columns(hdrs) ==
    LET headers_lower == [i \in 1..Len(hdrs) |-> Lower(hdrs[i])]
    IN  [qty      |-> find_col(headers_lower, QtyNames),
         size     |-> find_col(headers_lower, SizeNames),
         item_num |-> find_col(headers_lower, ItemNumNames),
         color    |-> find_col(headers_lower, ColorNames)]

(***************************************************************************)
(* Row parsing and validation.                                             *)
(* An Item is the dict built at lines 283-291; the keys that later stages  *)
(* add (_is_tall, _original_size, _summed_from) are fields from the start, *)
(* holding FALSE / <<>> while the dict has no such key.  The leading       *)
(* underscore of the private keys is dropped.                              *)
(***************************************************************************)
\* row[idx] if idx is not None and idx < len(row) else "" (idx zero-based).
Cell(row, single_idx) == IF single_idx # None /\ single_idx < Len(row) THEN row[single_idx + 1] ELSE <<>>

\* `not row or all(cell == "" for cell in row)`
IsEmptyRow(row) == row = <<>> \/ \A i \in 1..Len(row) : row[i] = <<>>

\* Every item number that reads as a whole number is rewritten, with or
\* without a '.' in it.
FixItemNum_AnyNumber(item_num_raw) ==
    LET item_num == Strip(item_num_raw)
        float_val == ParseFloat(item_num)
    IN  IF item_num # <<>>
           /\ float_val.kind = "num" /\ ~float_val.fracnz
        THEN IntToStr(IntOfFloat(float_val))
        ELSE item_num

\* Lines 266-275: "112.0" -> "112".
FixItemNum(item_num_raw) ==
    LET item_num == Strip(item_num_raw)
        float_val == ParseFloat(item_num)
    IN  IF item_num # <<>> /\ InSeq(item_num, ".")
           /\ float_val.kind = "num" /\ ~float_val.fracnz
        THEN IntToStr(IntOfFloat(float_val))
        ELSE item_num

\* Line 254: `if quantity <= 0`
QuantityRejected(quantity) == quantity <= 0

\* Line 279: `if not item_num`
ItemNumMissing(item_num) == item_num = <<>>

\* One iteration of the loop of lines 238-291, for a row that is not empty.
\* kind "item": the row became an item; "warn": it was dropped with a warning;
\* "raise": an exception left the function.
ParseRow(row, row_num, cmap) ==
    LET qty_str  == Cell(row, cmap.qty)
        f        == ParseFloat(qty_str)
        quantity == IF qty_str = <<>> THEN 0 ELSE IntOfFloat(f)
        size_raw == Cell(row, cmap.size)
        item_num == FixItemNum(Cell(row, cmap.item_num))
        color    == Strip(Cell(row, cmap.color))
        nothing  == [quantity |-> 0, size |-> <<>>, item_num |-> <<>>, color |-> <<>>,
                     description |-> <<>>, row_num |-> row_num, size_raw |-> <<>>,
                     is_tall |-> FALSE, original_size |-> <<>>, summed_from |-> <<>>]
    IN  IF qty_str # <<>> /\ f.kind \in {"err", "nan"}
        THEN \* float() or int() raised ValueError: caught at line 250
             [kind |-> "warn", item |-> nothing, exc |-> "",
              warning |-> [row_num |-> row_num, what |-> "Invalid quantity", cell |-> qty_str]]
        ELSE IF qty_str # <<>> /\ f.kind = "inf"
        THEN \* int(float('inf')) raises OverflowError, which line 250 does not catch
             [kind |-> "raise", item |-> nothing, exc |-> "OverflowError",
              warning |-> [row_num |-> row_num, what |-> "", cell |-> <<>>]]
        ELSE IF QuantityRejected(quantity)
        THEN [kind |-> "warn", item |-> nothing, exc |-> "",
              warning |-> [row_num |-> row_num, what |-> "Zero/negative quantity", cell |-> <<>>]]
        ELSE IF ItemNumMissing(item_num)
        THEN [kind |-> "warn", item |-> nothing, exc |-> "",
              warning |-> [row_num |-> row_num, what |-> "Missing item number", cell |-> <<>>]]
        ELSE [kind |-> "item", exc |-> "",
              warning |-> [row_num |-> row_num, what |-> "", cell |-> <<>>],
              item |-> [quantity |-> quantity,
                        size |-> parse_size_field(size_raw),
                        item_num |-> Strip(item_num),
                        color |-> Strip(color),
                        description |-> <<>>,
                        row_num |-> row_num,
                        size_raw |-> size_raw,
                        is_tall |-> FALSE,
                        original_size |-> <<>>,
                        summed_from |-> <<>>]]

\* The loop of lines 238-291 from row index i (one-based) on, with the items and
\* warnings collected so far.  Row numbers start at 2: row 1 is the header.
RECURSIVE ParseLoop(_, _, _, _, _)
ParseLoop(rws, cmap, i, its, warns) ==
    IF i > Len(rws)
    THEN [raised |-> "", items |-> its, warnings |-> warns]
    ELSE IF IsEmptyRow(rws[i])
    THEN ParseLoop(rws, cmap, i + 1, its, warns)
    ELSE LET r == ParseRow(rws[i], i + 1, cmap)
         IN  IF r.kind = "raise"
             THEN [raised |-> r.exc, items |-> <<>>, warnings |-> <<>>]
             ELSE IF r.kind = "warn"
             THEN ParseLoop(rws, cmap, i + 1, its, Append(warns, r.warning))
             ELSE ParseLoop(rws, cmap, i + 1, Append(its, r.item), warns)

\* A variant that starts the loop without checking the required columns.
RequiredColumnsMissing_Unchecked(cmap) == FALSE

\* Line 235: `if qty_idx is None or item_idx is None`
RequiredColumnsMissing(cmap) == cmap.qty = None \/ cmap.item_num = None

\* Empty rows are taken out before the rows are numbered.
parse_rows_to_items_EmptyNotCounted(rws, cmap) ==
    IF RequiredColumnsMissing(cmap)
    THEN [raised |-> "ValueError", items |-> <<>>, warnings |-> <<>>]
    ELSE ParseLoop(SelectSeq(rws, LAMBDA row : ~IsEmptyRow(row)), cmap, 1, <<>>, <<>>)

\* parse_rows_to_items: raised is "" when the call returns (items, warnings),
\* and the exception's type when it raises.
parse_rows_to_items(rws, cmap) ==
    IF RequiredColumnsMissing(cmap)
    THEN [raised |-> "ValueError", items |-> <<>>, warnings |-> <<>>]
    ELSE ParseLoop(rws, cmap, 1, <<>>, <<>>)

(***************************************************************************)
(* Tall sizes, duplicate summation, consolidation.                         *)
(***************************************************************************)
\* The tall item is built anew from the fields of an order line, without the
\* row it came from.
ExpandItem_NewItem(item) ==
    IF is_tall_size(item.size)
    THEN [item EXCEPT !.size = get_base_size(item.size),
                      !.description = item.description \o TallSuffix,
                      !.is_tall = TRUE,
                      !.original_size = item.size,
                      !.row_num = 0,
                      !.size_raw = <<>>]
    ELSE item

\* The body of the loop of lines 303-316.
ExpandItem(item) ==
    IF is_tall_size(item.size)
    THEN [item EXCEPT !.size = get_base_size(item.size),
                      !.description = item.description \o TallSuffix,
                      !.is_tall = TRUE,
                      !.original_size = item.size]
    ELSE item

process_tall_sizes(its) == [i \in 1..Len(its) |-> ExpandItem(its[i])]

\* The elements of seq without repetitions, in order of first occurrence: the
\* key order of a Python dict filled in that order.
RECURSIVE FirstSeen(_)
FirstSeen(seq) ==
    IF seq = <<>> THEN <<>>
    ELSE LET rest == FirstSeen(SubSeq(seq, 1, Len(seq) - 1))
             last == seq[Len(seq)]
         IN  IF InSeq(rest, last) THEN rest ELSE Append(rest, last)

RECURSIVE SumQuantity(_)
SumQuantity(its) ==
    IF its = <<>> THEN 0 ELSE its[1].quantity + SumQuantity(Tail(its))

\* A grouping key that takes the size cell as written instead of the size code.
SumKey_RawSize(item) == <<Upper(Strip(item.item_num)), Upper(Strip(item.color)), Upper(Strip(item.size_raw))>>

\* A grouping key that compares item_num and color as written.
SumKey_CaseSensitive(item) == <<Strip(item.item_num), Strip(item.color), Upper(Strip(item.size))>>

\* Lines 330-334.
SumKey(item) == <<Upper(Strip(item.item_num)), Upper(Strip(item.color)), Upper(Strip(item.size))>>

\* The members of one group, in input order.
SumGroup(its, key) == SelectSeq(its, LAMBDA it : SumKey(it) = key)

\* A variant that keeps the first member's quantity instead of the sum.
SummedItem_Overwrite(group) ==
    [group[1] EXCEPT
        !.summed_from = IF Len(group) > 1
                        THEN [i \in 1..Len(group) |-> group[i].row_num]
                        ELSE @]

\* Lines 342-349.
SummedItem(group) ==
    [group[1] EXCEPT
        !.quantity = SumQuantity(group),
        !.summed_from = IF Len(group) > 1
                        THEN [i \in 1..Len(group) |-> group[i].row_num]
                        ELSE @]

sum_duplicates(its) ==
    LET keys == FirstSeen([i \in 1..Len(its) |-> SumKey(its[i])])
    IN  [j \in 1..Len(keys) |-> SummedItem(SumGroup(its, keys[j]))]

\* Line 362.
ConsolidateKey(item) == <<Upper(Strip(item.item_num)), Upper(Strip(item.color))>>

ConsolidateGroup(its, key) == SelectSeq(its, LAMBDA it : ConsolidateKey(it) = key)

\* A variant that takes the description of the last member of the group.
ConsolidatedRecord_LastDescription(group) ==
    [item_num       |-> group[1].item_num,
     color          |-> group[1].color,
     description    |-> group[Len(group)].description,
     sizes          |-> [i \in 1..Len(group) |->
                            [size |-> group[i].size, quantity |-> group[i].quantity]],
     total_quantity |-> SumQuantity(group)]

\* Lines 364-378 for one group: the record is made from the first member and
\* gets one sizes entry per member.
ConsolidatedRecord(group) ==
    [item_num       |-> group[1].item_num,
     color          |-> group[1].color,
     description    |-> group[1].description,
     sizes          |-> [i \in 1..Len(group) |->
                            [size |-> group[i].size, quantity |-> group[i].quantity]],
     total_quantity |-> SumQuantity(group)]

consolidate_items(its) ==
    LET keys == FirstSeen([i \in 1..Len(its) |-> ConsolidateKey(its[i])])
    IN  [j \in 1..Len(keys) |-> ConsolidatedRecord(ConsolidateGroup(its, keys[j]))]

(***************************************************************************)
(* Input files.  A file is what read_file_raw returns: the header cells    *)
(* and the data rows, every cell already stripped (lines 176-188).  The    *)
(* files of the model come in three families, each with its own pool of    *)
(* rows, and hold up to MaxRows rows.                                      *)
(***************************************************************************)
StandardHeaders == <<<<"Q","t","y">>, <<"S","i","z","e">>, <<"I","t","e","m">>, <<"C","o","l","o","r">>>>

\* Rows (qty, size, item) that exercise the quantity and item-number checks,
\* short rows and empty rows included.
ParserRows ==
    {
      <<<<>>, <<"M">>, <<"A">>>>,
      <<<<"5">>, <<"M">>, <<"A">>>>,
      <<<<"0">>, <<"M">>, <<"A">>>>,
      <<<<"-","1">>, <<"M">>, <<"A">>>>,
      <<<<"5",".","0">>, <<"M">>, <<"A">>>>,
      <<<<"2",".","7">>, <<"M">>, <<"A">>>>,
      <<<<"a","b","c">>, <<"M">>, <<"A">>>>,
      <<<<"n","a","n">>, <<"M">>, <<"A">>>>,
      <<<<"i","n","f">>, <<"M">>, <<"A">>>>,
      <<<<"-","i","n","f">>, <<"M">>, <<"A">>>>,
      <<<<"5">>, <<"M">>, <<>>>>,
      <<<<"a","b","c">>, <<"M">>, <<>>>>,
      <<>>,
      <<<<"5">>>>,
      <<<<>>, <<>>, <<>>>>,
      <<<<"3">>, <<"M">>, <<"1","1","2",".","0">>>>,
      <<<<"3">>, <<"M">>, <<"1",".","5">>>>,
      <<<<"3">>, <<"M">>, <<"0","0","7">>>>,
      <<<<>>, <<"M">>>>
    }

\* Valid rows (qty, size, item, color) that exercise size normalization, tall
\* sizes, duplicates and letter case.
PipelineRows ==
    {
      <<<<"5">>, <<"S","m","a","l","l">>, <<"A","B","C">>, <<"N","a","v","y">>>>,
      <<<<"5">>, <<"S">>, <<"A","B","C">>, <<"N","a","v","y">>>>,
      <<<<"5">>, <<"L","T">>, <<"A","B","C">>, <<"N","a","v","y">>>>,
      <<<<"5">>, <<"L">>, <<"A","B","C">>, <<"N","a","v","y">>>>,
      <<<<"5">>, <<"X","X","L","T">>, <<"A","B","C">>, <<"N","a","v","y">>>>,
      <<<<"5">>, <<"L","T","T">>, <<"A","B","C">>, <<"N","a","v","y">>>>,
      <<<<"5">>, <<"2","X","L">>, <<"A","B","C">>, <<"N","a","v","y">>>>,
      <<<<"5">>, <<"M">>, <<"A","B","C">>, <<"N","a","v","y">>>>,
      <<<<"3">>, <<"S">>, <<"A","B","C">>, <<"N","a","v","y">>>>,
      <<<<"3">>, <<"L">>, <<"A","B","C">>, <<"N","a","v","y">>>>,
      <<<<"3">>, <<"L","T">>, <<"A","B","C">>, <<"N","a","v","y">>>>,
      <<<<"3">>, <<"2","X","L">>, <<"A","B","C">>, <<"N","a","v","y">>>>,
      <<<<"3">>, <<"S">>, <<"a","b","c">>, <<"n","a","v","y">>>>,
      <<<<"3">>, <<"l">>, <<"a","b","c">>, <<"n","a","v","y">>>>,
      <<<<"5">>, <<"l","t">>, <<"A","B","C">>, <<"R","e","d">>>>,
      <<<<"2">>, <<"2","X","L"," ","(","$","3",".","5","0",")">>, <<"A","B","C">>, <<"R","e","d">>>>,
      <<<<"2">>, <<"2","T">>, <<"X","Y","Z">>, <<>>>>,
      <<<<"2">>, <<>>, <<"X","Y","Z">>, <<>>>>
    }

\* Header rows: complete, reordered, with synonyms, and with required columns
\* missing.
HeaderVariants ==
    {
      <<<<"Q","t","y">>, <<"S","i","z","e">>, <<"I","t","e","m">>, <<"C","o","l","o","r">>>>,
      <<<<"Q","u","a","n","t","i","t","y">>, <<"S","t","y","l","e">>, <<"C","o","l","o","u","r">>>>,
      <<<<"S","i","z","e">>, <<"C","o","l","o","r">>>>,
      <<<<"Q","t","y">>, <<"S","i","z","e">>, <<"C","o","l","o","r">>>>,
      <<<<"I","t","e","m">>, <<"S","i","z","e">>>>,
      <<<<"S","t","y","l","e">>, <<"C","O","U","N","T">>, <<"I","t","e","m">>, <<"s","i","z","e">>, <<"c","o","l","o","u","r">>>>,
      <<<<"S","i","z","e","s">>, <<"Q","T","Y">>, <<"S","t","y","l","e">>, <<"S","i","z","e">>, <<"Q","t","y">>>>,
      <<>>
    }

\* Rows read under the header variants.
HeaderRows ==
    {
      <<<<"5">>, <<"M">>, <<"A">>, <<"R","e","d">>>>,
      <<<<"3">>, <<"L","T">>, <<"A">>, <<"R","e","d">>>>,
      <<<<"A">>, <<"4">>, <<"R","e","d">>>>,
      <<<<"7">>>>,
      <<<<"i","n","f">>, <<"M">>, <<"A">>, <<"R","e","d">>>>
    }

\* The sequences over S of length at most n.
SeqsUpTo(S, n) == UNION { [1..k -> S] : k \in 0..n }

Files ==
    { [headers |-> StandardHeaders, rows |-> rs] : rs \in SeqsUpTo(ParserRows, MaxRows) }
    \cup
    { [headers |-> StandardHeaders, rows |-> rs] : rs \in SeqsUpTo(PipelineRows, MaxRows) }
    \cup
    { [headers |-> h, rows |-> rs] : h \in HeaderVariants, rs \in SeqsUpTo(HeaderRows, MaxRows) }

(***************************************************************************)
(* Description enrichment, as read_csv calls it (vendor "auto").  What a   *)
(* vendor answers for a style is an input of the model.                    *)
(***************************************************************************)
\* A lookup that found nothing (None).
NoDescription == <<>>

\* A description a vendor returns.
VendorDescription == <<"T","e","e">>

LookupAnswers == {NoDescription, VendorDescription}

\* Line 668: the set of style numbers of the records.
UniqueStyles(records) ==
    { Strip(records[i].item_num) : i \in { j \in 1..Len(records) : records[j].item_num # <<>> } }

\* The description found replaces the record's description as it is.
EnrichRecord_DropTall(record, description_cache) ==
    LET style_num == Strip(record.item_num)
    IN  IF style_num \in DOMAIN description_cache
           /\ description_cache[style_num] # NoDescription
        THEN [record EXCEPT !.description = description_cache[style_num]]
        ELSE record

\* Lines 679-696 for one record, given the description cache of the call.
EnrichRecord(record, description_cache) ==
    LET style_num == Strip(record.item_num)
    IN  IF style_num \in DOMAIN description_cache
           /\ description_cache[style_num] # NoDescription
        THEN IF EndsWith(record.description, TallSuffix)
             THEN [record EXCEPT !.description = description_cache[style_num] \o TallSuffix]
             ELSE [record EXCEPT !.description = description_cache[style_num]]
        ELSE record

(***************************************************************************)
(* The vendor lookups.  What a vendor's service answers is an input of the *)
(* model; None and the empty text are both NoDescription, as every caller  *)
(* tests a description for truth only.                                     *)
(***************************************************************************)
\* The style numbers the services know, in upper case.
VendorStyles == { <<"A">>, <<"B">> }

\* Catalog entries of SSActivewear (the keys read at lines 453-466).
CatalogEntryA ==
    [styleName |-> <<"A">>, uniqueStyleName |-> <<>>, brandName |-> <<"P","o","r","t">>, title |-> <<"T","e","e">>]

CatalogEntryATitleOnly ==
    [styleName |-> <<>>, uniqueStyleName |-> <<"a"," ">>, brandName |-> <<>>, title |-> <<"T","e","e">>]

\* What response.json() of the catalog request can be when it is a list.
Catalogs == { <<>>, <<CatalogEntryA>>, <<CatalogEntryATitleOnly, CatalogEntryA>> }

\* The ways the catalog request of lines 405-421 can end: requests.get raises,
\* status 401, another status than 200, a body that is not JSON, a JSON body
\* that is a number, a JSON list.
CatalogFailures == {"transport", "unauthorized", "server_error", "malformed", "scalar"}

CatalogResponses ==
    { [kind |-> k, body |-> <<>>] : k \in CatalogFailures }
    \cup { [kind |-> "ok", body |-> c] : c \in Catalogs }

\* The values of _ssactivewear_cache: None, a JSON list, a JSON number.
NoCatalog == [kind |-> "None", body |-> <<>>]

\* _load_ssactivewear_catalog asking again while the cache is None.
load_ssactivewear_catalog_Refetch(cache, attempted, response) ==
    IF attempted /\ cache # NoCatalog
    THEN [ok |-> TRUE, cache |-> cache, attempted |-> TRUE, requested |-> FALSE]
    ELSE IF response.kind = "ok"
    THEN [ok |-> TRUE, cache |-> [kind |-> "list", body |-> response.body],
          attempted |-> TRUE, requested |-> TRUE]
    ELSE IF response.kind = "scalar"
    THEN [ok |-> FALSE, cache |-> [kind |-> "scalar", body |-> <<>>],
          attempted |-> TRUE, requested |-> TRUE]
    ELSE [ok |-> FALSE, cache |-> cache, attempted |-> TRUE, requested |-> TRUE]

\* _load_ssactivewear_catalog, lines 387-431, called with the credentials set
\* and a log_callback.  requested: the request of line 405 was issued.
load_ssactivewear_catalog(cache, attempted, response) ==
    IF attempted
    THEN [ok |-> cache # NoCatalog, cache |-> cache, attempted |-> TRUE, requested |-> FALSE]
    ELSE IF response.kind = "ok"
    THEN [ok |-> TRUE, cache |-> [kind |-> "list", body |-> response.body],
          attempted |-> TRUE, requested |-> TRUE]
    ELSE IF response.kind = "scalar"
    THEN \* line 421 has assigned the cache when len() raises at line 424
         [ok |-> FALSE, cache |-> [kind |-> "scalar", body |-> <<>>],
          attempted |-> TRUE, requested |-> TRUE]
    ELSE [ok |-> FALSE, cache |-> cache, attempted |-> TRUE, requested |-> TRUE]

\* Lines 452-457: the entries of the catalog that match the style.
CatalogMatches(catalog, style_upper) ==
    SelectSeq(catalog, LAMBDA style :
        \/ Upper(Strip(style.styleName)) = style_upper
        \/ Upper(Strip(style.uniqueStyleName)) = style_upper)

\* Lines 464-480.
CatalogDescription(style) ==
    IF style.brandName # <<>> /\ style.title # <<>>
    THEN style.brandName \o <<" ">> \o style.title
    ELSE IF style.title # <<>> THEN style.title
    ELSE IF style.brandName # <<>> THEN style.brandName
    ELSE NoDescription

\* lookup_ssactivewear_description, lines 434-485.
lookup_ssactivewear_description(style_number, configured, cache, attempted, response) ==
    IF ~configured
    THEN [description |-> NoDescription, cache |-> cache, attempted |-> attempted,
          requested |-> FALSE, raised |-> ""]
    ELSE LET loaded  == load_ssactivewear_catalog(cache, attempted, response)
             matches == CatalogMatches(loaded.cache.body, Upper(Strip(style_number)))
             found   ==
                 IF ~loaded.ok \/ loaded.cache = NoCatalog
                    \/ loaded.cache = [kind |-> "list", body |-> <<>>]
                 THEN NoDescription
                 ELSE IF loaded.cache.kind = "scalar"
                 THEN NoDescription   \* the loop of line 452 raises; caught at line 482
                 ELSE IF matches = <<>> THEN NoDescription
                 ELSE CatalogDescription(matches[1])
         IN  [description |-> found, cache |-> loaded.cache, attempted |-> loaded.attempted,
              requested |-> loaded.requested, raised |-> ""]

\* A product of Sanmar (productBasicInfo, lines 569-571).
SanmarProducts ==
    { [title |-> <<"T","e","e">>, description |-> <<"S","o","f","t">>, brand |-> <<"P","o","r","t">>],
      [title |-> <<"T","e","e">>, description |-> <<>>, brand |-> <<>>],
      [title |-> <<>>, description |-> <<"S","o","f","t">>, brand |-> <<"P","o","r","t">>] }

NoProduct == [title |-> <<>>, description |-> <<>>, brand |-> <<>>]

\* What Sanmar answers for a style when it is reached: errorOccured, an empty
\* listResponse, an item without productBasicInfo, a product.
SanmarAnswers ==
    { [kind |-> k, product |-> NoProduct] : k \in {"error", "not_found", "no_info"} }
    \cup { [kind |-> "product", product |-> p] : p \in SanmarProducts }

\* What the Sanmar service can hold: style 'B' is unknown to it.
SanmarServices ==
    { [u \in VendorStyles |->
          IF u = <<"A">> THEN a ELSE [kind |-> "not_found", product |-> NoProduct]] :
      a \in SanmarAnswers }

\* The ways the making of the SOAP client at lines 503-505 can end.
ClientOutcomes == {"client", "ImportError", "Exception"}

\* _get_sanmar_client, lines 492-510, with the credentials set.
get_sanmar_client(client, outcome) ==
    IF client # "None" THEN client
    ELSE IF outcome = "client" THEN "client"
    ELSE "None"

\* Lines 584-589: what a fresh fetch returns for a product.
SanmarDescription(product) ==
    IF product.brand # <<>> /\ product.title # <<>>
    THEN product.brand \o <<" ","-"," ">> \o product.title
    ELSE IF product.title # <<>> THEN product.title
    ELSE NoDescription

\* lookup_sanmar_description without the except clause of line 595.
lookup_sanmar_description_Uncaught(style_number, configured, cache, client, outcome, transport, answer) ==
    LET style_upper == Upper(Strip(style_number))
        made        == get_sanmar_client(client, outcome)
        unchanged(description, from_cache, new_client, exc) ==
            [description |-> description, cache |-> cache, client |-> new_client,
             from_cache |-> from_cache, fetched |-> FALSE, raised |-> exc]
    IN  IF ~configured THEN unchanged(NoDescription, FALSE, client, "")
        ELSE IF style_upper \in DOMAIN cache
        THEN unchanged(cache[style_upper].description, TRUE, client, "")
        ELSE IF made = "None" THEN unchanged(NoDescription, FALSE, made, "")
        ELSE IF transport THEN unchanged(NoDescription, FALSE, made, "Exception")
        ELSE IF answer.kind # "product" THEN unchanged(NoDescription, FALSE, made, "")
        ELSE [description |-> SanmarDescription(answer.product),
              cache |-> [u \in DOMAIN cache \cup {style_upper} |->
                            IF u = style_upper THEN answer.product ELSE cache[u]],
              client |-> made, from_cache |-> FALSE, fetched |-> TRUE, raised |-> ""]

\* lookup_sanmar_description, lines 513-598.  outcome: how the making of the
\* client ends if it is made; transport: the call of line 549 raises; answer:
\* what the service answers otherwise.
lookup_sanmar_description(style_number, configured, cache, client, outcome, transport, answer) ==
    LET style_upper == Upper(Strip(style_number))
        made        == get_sanmar_client(client, outcome)
        unchanged(description, from_cache, new_client) ==
            [description |-> description, cache |-> cache, client |-> new_client,
             from_cache |-> from_cache, fetched |-> FALSE, raised |-> ""]
    IN  IF ~configured THEN unchanged(NoDescription, FALSE, client)
        ELSE IF style_upper \in DOMAIN cache
        THEN unchanged(cache[style_upper].description, TRUE, client)
        ELSE IF made = "None" THEN unchanged(NoDescription, FALSE, made)
        ELSE IF transport THEN unchanged(NoDescription, FALSE, made)
        ELSE IF answer.kind # "product" THEN unchanged(NoDescription, FALSE, made)
        ELSE [description |-> SanmarDescription(answer.product),
              cache |-> [u \in DOMAIN cache \cup {style_upper} |->
                            IF u = style_upper THEN answer.product ELSE cache[u]],
              client |-> made, from_cache |-> FALSE, fetched |-> TRUE, raised |-> ""]

\* lookup_product_description asking Sanmar whatever SSActivewear answered.
lookup_product_description_SanmarAlways(style_number, state, world) ==
    LET ss == lookup_ssactivewear_description(style_number, state.has_ssactivewear,
                  state.ssactivewear_cache, state.ssactivewear_cache_attempted,
                  world.response)
        ss_called     == state.has_ssactivewear
        ss_found      == ss_called /\ ss.raised = "" /\ ss.description # NoDescription
        sanmar_called == state.has_sanmar
        sanmar == lookup_sanmar_description(style_number, state.has_sanmar,
                      state.sanmar_cache, state.sanmar_client,
                      world.outcome, world.transport, world.answer)
    IN  [style       |-> style_number,
         consulted   |-> (IF ss_called THEN <<"ssactivewear">> ELSE <<>>)
                         \o (IF sanmar_called THEN <<"sanmar">> ELSE <<>>),
         answers     |-> (IF ss_called THEN <<ss.description>> ELSE <<>>)
                         \o (IF sanmar_called THEN <<sanmar.description>> ELSE <<>>),
         description |-> IF ss_found THEN ss.description
                         ELSE IF sanmar_called /\ sanmar.raised = ""
                         THEN sanmar.description
                         ELSE NoDescription,
         failed      |-> (IF ss_called /\ ss.requested
                             /\ world.response.kind \in CatalogFailures
                          THEN {"ssactivewear"} ELSE {})
                         \cup
                         (IF sanmar_called /\ ~sanmar.from_cache
                             /\ (\/ get_sanmar_client(state.sanmar_client,
                                                      world.outcome) = "None"
                                 \/ world.transport
                                 \/ world.answer.kind = "error")
                          THEN {"sanmar"} ELSE {}),
         from_cache  |-> sanmar_called /\ sanmar.from_cache,
         fetched     |-> sanmar_called /\ sanmar.fetched,
         requested   |-> ss_called /\ ss.requested,
         raised      |-> IF ss_called /\ ss.raised # "" THEN ss.raised
                         ELSE IF sanmar_called THEN sanmar.raised ELSE "",
         ssactivewear_cache |-> IF ss_called THEN ss.cache ELSE state.ssactivewear_cache,
         ssactivewear_cache_attempted |->
             IF ss_called THEN ss.attempted ELSE state.ssactivewear_cache_attempted,
         sanmar_cache  |-> IF sanmar_called THEN sanmar.cache ELSE state.sanmar_cache,
         sanmar_client |-> IF sanmar_called THEN sanmar.client ELSE state.sanmar_client]

\* lookup_product_description with vendor "auto", lines 605-627.  state: the
\* credentials and the caches before the call; world: what the services do
\* when they are asked during the call.
lookup_product_description(style_number, state, world) ==
    LET ss == lookup_ssactivewear_description(style_number, state.has_ssactivewear,
                  state.ssactivewear_cache, state.ssactivewear_cache_attempted,
                  world.response)
        ss_called     == state.has_ssactivewear
        ss_found      == ss_called /\ ss.raised = "" /\ ss.description # NoDescription
        sanmar_called == state.has_sanmar /\ ~ss_found /\ ~(ss_called /\ ss.raised # "")
        sanmar == lookup_sanmar_description(style_number, state.has_sanmar,
                      state.sanmar_cache, state.sanmar_client,
                      world.outcome, world.transport, world.answer)
    IN  [style       |-> style_number,
         consulted   |-> (IF ss_called THEN <<"ssactivewear">> ELSE <<>>)
                         \o (IF sanmar_called THEN <<"sanmar">> ELSE <<>>),
         answers     |-> (IF ss_called THEN <<ss.description>> ELSE <<>>)
                         \o (IF sanmar_called THEN <<sanmar.description>> ELSE <<>>),
         description |-> IF ss_found THEN ss.description
                         ELSE IF sanmar_called /\ sanmar.raised = ""
                         THEN sanmar.description
                         ELSE NoDescription,
         failed      |-> (IF ss_called /\ ss.requested
                             /\ world.response.kind \in CatalogFailures
                          THEN {"ssactivewear"} ELSE {})
                         \cup
                         (IF sanmar_called /\ ~sanmar.from_cache
                             /\ (\/ get_sanmar_client(state.sanmar_client,
                                                      world.outcome) = "None"
                                 \/ world.transport
                                 \/ world.answer.kind = "error")
                          THEN {"sanmar"} ELSE {}),
         from_cache  |-> sanmar_called /\ sanmar.from_cache,
         fetched     |-> sanmar_called /\ sanmar.fetched,
         requested   |-> ss_called /\ ss.requested,
         raised      |-> IF ss_called /\ ss.raised # "" THEN ss.raised
                         ELSE IF sanmar_called THEN sanmar.raised ELSE "",
         ssactivewear_cache |-> IF ss_called THEN ss.cache ELSE state.ssactivewear_cache,
         ssactivewear_cache_attempted |->
             IF ss_called THEN ss.attempted ELSE state.ssactivewear_cache_attempted,
         sanmar_cache  |-> IF sanmar_called THEN sanmar.cache ELSE state.sanmar_cache,
         sanmar_client |-> IF sanmar_called THEN sanmar.client ELSE state.sanmar_client]

\* A record as consolidate_items builds it, of one size.
VendorRecord(item_num, color, description) ==
    [item_num |-> item_num, color |-> color, description |-> description,
     sizes |-> <<[size |-> <<"M">>, quantity |-> 1]>>, total_quantity |-> 1]

\* The record lists enrich_items_with_descriptions is called with.
VendorItems ==
    { <<VendorRecord(<<"A">>, <<"R","e","d">>, <<>>)>>,
      <<VendorRecord(<<"A">>, <<"R","e","d">>, TallSuffix), VendorRecord(<<"B">>, <<"R","e","d">>, <<>>)>>,
      <<VendorRecord(<<"A">>, <<"R","e","d">>, <<>>), VendorRecord(<<"a">>, <<"n","a","v","y">>, <<>>)>> }

(***************************************************************************)
(* The Printavo calls of api_client.py and the run of WorkerThread.         *)
(***************************************************************************)
\* SIZE_MAP_ENUM, lines 74-98: the size code and its wire enum.
SIZE_MAP_ENUM ==
    <<
       <<<<"Y","X","S">>, "size_yxs">>,
       <<<<"Y","S">>, "size_ys">>,
       <<<<"Y","M">>, "size_ym">>,
       <<<<"Y","L">>, "size_yl">>,
       <<<<"Y","X","L">>, "size_yxl">>,
       <<<<"X","S">>, "size_xs">>,
       <<<<"S">>, "size_s">>,
       <<<<"M">>, "size_m">>,
       <<<<"L">>, "size_l">>,
       <<<<"X","L">>, "size_xl">>,
       <<<<"2","X","L">>, "size_2xl">>,
       <<<<"3","X","L">>, "size_3xl">>,
       <<<<"4","X","L">>, "size_4xl">>,
       <<<<"5","X","L">>, "size_5xl">>,
       <<<<"6","X","L">>, "size_6xl">>,
       <<<<"6","M">>, "size_6m">>,
       <<<<"1","2","M">>, "size_12m">>,
       <<<<"1","8","M">>, "size_18m">>,
       <<<<"2","4","M">>, "size_24m">>,
       <<<<"2","T">>, "size_2t">>,
       <<<<"3","T">>, "size_3t">>,
       <<<<"4","T">>, "size_4t">>,
       <<<<"5","T">>, "size_5t">>
    >>

\* normalize_size, lines 143-155.
normalize_size(size_str) ==
    LET stripped   == Upper(Strip(size_str))
        size_upper == IF InSizeMap(stripped) THEN SizeMapGet(stripped) ELSE stripped
    IN  IF \E i \in 1..Len(SIZE_MAP_ENUM) : SIZE_MAP_ENUM[i][1] = size_upper
        THEN SIZE_MAP_ENUM[CHOOSE i \in 1..Len(SIZE_MAP_ENUM) :
                               SIZE_MAP_ENUM[i][1] = size_upper][2]
        ELSE "size_other"

\* An input without the key "sizes".
NoSizes == <<>>

\* create_line_items_batch, lines 161-173: the sizes array of one record.
BatchSizes(sizes) ==
    [i \in 1..Len(sizes) |->
        IF sizes[i].size # <<>>
        THEN [size |-> normalize_size(sizes[i].size), count |-> sizes[i].quantity]
        ELSE [size |-> "size_other", count |-> sizes[i].quantity]]

\* create_line_items_batch, lines 141-184: the inputs built for the records.
\* Records of consolidate_items hold "sizes", so line 175 is not reached.
BatchInputs(records) ==
    [i \in 1..Len(records) |->
        [itemNumber  |-> records[i].item_num,
         color       |-> records[i].color,
         description |-> records[i].description,
         position    |-> i,
         sizes       |-> IF records[i].sizes # <<>>
                         THEN BatchSizes(records[i].sizes) ELSE NoSizes]]

\* create_line_item_single, lines 226-233: the sizes array of the record.
SingleSizes(sizes) ==
    LET named == SelectSeq(sizes, LAMBDA size_info : size_info.size # <<>>)
    IN  [i \in 1..Len(named) |->
            [size |-> normalize_size(named[i].size), count |-> named[i].quantity]]

\* create_line_item_single, lines 212-238: the input built for one record.
SingleInput(it, position) ==
    [itemNumber  |-> it.item_num,
     color       |-> it.color,
     description |-> it.description,
     position    |-> position,
     sizes       |-> IF it.sizes # <<>> THEN SingleSizes(it.sizes) ELSE NoSizes]

\* The counts of a sizes array, summed.
RECURSIVE SumCounts(_)
SumCounts(sizes_array) ==
    IF sizes_array = <<>> THEN 0
    ELSE sizes_array[1].count + SumCounts(Tail(sizes_array))

\* The files a worker is started on: a file that cannot be read, or headers
\* and rows.
Unreadable == [headers |-> <<>>, rows |-> <<>>, readable |-> FALSE]

WorkerRows ==
    {
      <<<<"2">>, <<"M">>, <<"A">>, <<"R","e","d">>>>,
      <<<<"3">>, <<>>, <<"A">>, <<"R","e","d">>>>,
      <<<<"1">>, <<"E","x","t","r","a"," ","L","a","r","g","e">>, <<"B">>, <<"R","e","d">>>>,
      <<<<"x">>, <<"M">>, <<"A">>, <<"R","e","d">>>>
    }

WorkerFiles ==
    { [headers |-> h, rows |-> rs, readable |-> TRUE] :
        h \in {StandardHeaders, <<<<"S","i","z","e">>, <<"C","o","l","o","r">>>>},
        rs \in SeqsUpTo(WorkerRows, MaxRows) }
    \cup {Unreadable}

\* read_csv, lines 750-767, once parse_rows_to_items has raised or returned.
ReadCsvAfterParse(parsed) ==
    IF parsed.raised # ""
    THEN [raised |-> parsed.raised, consolidated |-> <<>>]
    ELSE [raised |-> "",
          consolidated |->
              consolidate_items(sum_duplicates(process_tall_sizes(parsed.items)))]

\* read_csv, lines 708-767, with no vendor credentials set: raised is the
\* exception's type when a step raises, "" when the records are returned.
read_csv(file) ==
    IF ~file.readable
    THEN [raised |-> "FileNotFoundError", consolidated |-> <<>>]
    ELSE ReadCsvAfterParse(parse_rows_to_items(file.rows, detect_columns(file.headers)))

\* The messages of finished_signal, lines 45, 108 and 111.
NoValidItems == <<"No valid items found in file.">>

QuoteCreated == <<"Quote created successfully!">>

ErrorMessage(exc) == <<"Error: ", exc>>

(***************************************************************************)
(* The state of one run of read_csv.                                       *)
(***************************************************************************)
VARIABLES
    pc,            \* the place the run has reached
    headers,       \* read_csv's headers
    rows,          \* read_csv's rows
    column_map,    \* read_csv's column_map
    parsed_items,  \* items as returned by parse_rows_to_items
    warnings,      \* warnings as returned by parse_rows_to_items
    tall_items,    \* items after process_tall_sizes
    summed_items,  \* items after sum_duplicates
    consolidated,  \* the records of consolidate_items, then enriched
    lookups,       \* style number -> number of vendor lookups made for it
    description_cache, \* enrich_items_with_descriptions' description_cache
    raised         \* the exception that ended the run, "" if none

run_vars == <<pc, headers, rows, column_map, parsed_items, warnings, tall_items,
              summed_items, consolidated, lookups, description_cache, raised>>

(***************************************************************************)
(* The state of one use of the size functions on their own: a size text,   *)
(* what parse_size_field makes of it, and what is_tall_size and            *)
(* get_base_size answer for a code.                                        *)
(***************************************************************************)
VARIABLES
    size_pc,       \* the place the use has reached
    size_str,      \* the text given: [lead, word, trail], read lead \o word \o trail
    size_code,    \* parse_size_field(size_str)
    size_again,    \* parse_size_field(size_code)
    tall_code,     \* the code given to is_tall_size and get_base_size
    tall,          \* is_tall_size(tall_code)
    base_size      \* get_base_size(tall_code)

size_vars == <<size_pc, size_str, size_code, size_again, tall_code, tall, base_size>>

(***************************************************************************)
(* The state of one process that looks product descriptions up: the        *)
(* credentials of config, the module-level caches of data_processing.py    *)
(* (their leading underscore dropped), the call of                         *)
(* enrich_items_with_descriptions in progress, and what the vendors'       *)
(* services were asked.                                                    *)
(***************************************************************************)
VARIABLES
    vendor_pc,                     \* the place the process has reached
    has_ssactivewear,              \* config.SSACTIVEWEAR_ACCOUNT and _API_KEY are set
    has_sanmar,                    \* config.SANMAR_CUSTOMER_NUMBER, _USERNAME, _PASSWORD are set
    ssactivewear_cache,            \* _ssactivewear_cache
    ssactivewear_cache_attempted,  \* _ssactivewear_cache_attempted
    sanmar_cache,                  \* _sanmar_cache: style in upper case -> product_data
    sanmar_client,                 \* _sanmar_client
    sanmar_service,                \* what Sanmar holds: style in upper case -> product
    items,                         \* the records of the call of enrich_items_with_descriptions
    unique_styles,                 \* the style numbers of the call not yet looked up
    style_cache,                   \* the description_cache of the call
    enrich_calls,                  \* calls of enrich_items_with_descriptions that returned
    catalog_requests,              \* requests for the SSActivewear catalog issued so far
    cache_history,                 \* every value _ssactivewear_cache has been assigned
    sanmar_fetched,                \* style in upper case -> what its fresh fetch returned
    last_lookup                    \* the last call of lookup_product_description

vendor_vars == <<vendor_pc, has_ssactivewear, has_sanmar, ssactivewear_cache,
                 ssactivewear_cache_attempted, sanmar_cache, sanmar_client,
                 sanmar_service, items, unique_styles, style_cache, enrich_calls,
                 catalog_requests, cache_history, sanmar_fetched, last_lookup>>

(***************************************************************************)
(* The state of one WorkerThread (worker.py).                              *)
(***************************************************************************)
VARIABLES
    worker_pc,                     \* where run() stands
    csv_file,                      \* the file of self.csv_path
    worker_records,                \* consolidated, once read_csv has returned
    api_calls,                     \* the create calls made, in order, with what they send
    created,                       \* positions of the records created as line items
    single_idx,                    \* position of the fallback loop of line 83
    finished_signals,              \* the emissions of finished_signal: (success, message)
    last_signal                    \* the signal emitted last: "none", "log", "finished"

worker_vars == <<worker_pc, csv_file, worker_records, api_calls, created, single_idx,
                 finished_signals, last_signal>>

(***************************************************************************)
(* The state of the main window, PrintavoGUI (gui.py).                     *)
(***************************************************************************)
VARIABLES
    csv_path,                      \* self.csv_path
    contact_text,                  \* the text of contact_input
    printavo_credentials,          \* config.PRINTAVO_EMAIL and config.PRINTAVO_TOKEN are set
    create_btn,                    \* create_btn is enabled
    select_btn,                    \* select_btn is enabled
    ai_process_btn,                \* ai_process_btn is enabled
    contact_input,                 \* contact_input is enabled
    note_input,                    \* note_input is enabled
    settings_open,                 \* the SettingsDialog is shown (modal)
    worker,                        \* self.worker: 0 for None, else the number of the thread
    running,                       \* the WorkerThreads started and not yet finished
    started                        \* the WorkerThreads started so far

gui_vars == <<csv_path, contact_text, printavo_credentials, create_btn, select_btn,
              ai_process_btn, contact_input, note_input, settings_open, worker,
              running, started>>

vars == <<run_vars, size_vars, vendor_vars, worker_vars, gui_vars>>

outside_run == <<size_vars, vendor_vars, worker_vars, gui_vars>>

outside_size == <<run_vars, vendor_vars, worker_vars, gui_vars>>

outside_vendor == <<run_vars, size_vars, worker_vars, gui_vars>>

outside_worker == <<run_vars, size_vars, vendor_vars, gui_vars>>

outside_gui == <<run_vars, size_vars, vendor_vars, worker_vars>>

NoSizeText == [lead |-> <<>>, word |-> <<>>, trail |-> <<>>]

\* No size text has been given.
SizeIdle ==
    /\ size_pc = "idle"
    /\ size_str = NoSizeText
    /\ size_code = <<>>
    /\ size_again = <<>>
    /\ tall_code = <<>>
    /\ tall = FALSE
    /\ base_size = <<>>

NoColumnMap == [qty |-> None, size |-> None, item_num |-> None, color |-> None]

\* No lookup has been made in the process.
NoLookup ==
    [style |-> <<>>, consulted |-> <<>>, answers |-> <<>>, description |-> <<>>,
     failed |-> {}, from_cache |-> FALSE, requested |-> FALSE, raised |-> ""]

\* self.csv_path when no file is chosen.
NoPath == "None"

\* PrintavoGUI.__init__ and init_ui, lines 477-481 and 678, with no Printavo
\* credentials loaded.
GuiIdle ==
    /\ csv_path = NoPath
    /\ contact_text = <<>>
    /\ printavo_credentials = FALSE
    /\ create_btn = FALSE
    /\ select_btn = TRUE
    /\ ai_process_btn = TRUE
    /\ contact_input = TRUE
    /\ note_input = TRUE
    /\ settings_open = FALSE
    /\ worker = 0
    /\ running = {}
    /\ started = 0

\* No WorkerThread has been made.
WorkerIdle ==
    /\ worker_pc = "idle"
    /\ csv_file = Unreadable
    /\ worker_records = <<>>
    /\ api_calls = <<>>
    /\ created = <<>>
    /\ single_idx = 0
    /\ finished_signals = <<>>
    /\ last_signal = "none"

\* Lines 22-27, before anything is looked up.
VendorIdle ==
    /\ vendor_pc = "idle"
    /\ has_ssactivewear = FALSE
    /\ has_sanmar = FALSE
    /\ ssactivewear_cache = NoCatalog
    /\ ssactivewear_cache_attempted = FALSE
    /\ sanmar_cache = <<>>
    /\ sanmar_client = "None"
    /\ sanmar_service = <<>>
    /\ items = <<>>
    /\ unique_styles = {}
    /\ style_cache = <<>>
    /\ enrich_calls = 0
    /\ catalog_requests = 0
    /\ cache_history = <<>>
    /\ sanmar_fetched = <<>>
    /\ last_lookup = NoLookup

\* read_csv has not been called.
RunIdle ==
    /\ pc = "start"
    /\ headers = <<>>
    /\ rows = <<>>
    /\ column_map = NoColumnMap
    /\ parsed_items = <<>>
    /\ warnings = <<>>
    /\ tall_items = <<>>
    /\ summed_items = <<>>
    /\ consolidated = <<>>
    /\ lookups = <<>>
    /\ description_cache = <<>>
    /\ raised = ""

Init ==
    /\ RunIdle
    /\ SizeIdle
    /\ VendorIdle
    /\ WorkerIdle
    /\ GuiIdle

\* Line 728: read_file_raw returns the headers and rows of the file.
ReadFileRaw ==
    /\ pc = "start"
    /\ \E f \in Files :
          /\ headers' = f.headers
          /\ rows' = f.rows
    /\ pc' = "read"
    /\ UNCHANGED <<column_map, parsed_items, warnings, tall_items, summed_items,
                   consolidated, lookups, description_cache, raised>>
    /\ UNCHANGED outside_run

\* Line 728: read_file_raw raises (missing file, unsupported workbook).
ReadFileFails ==
    /\ pc = "start"
    /\ \E exc \in {"FileNotFoundError", "RuntimeError"} : raised' = exc
    /\ pc' = "raised"
    /\ UNCHANGED <<headers, rows, column_map, parsed_items, warnings, tall_items,
                   summed_items, consolidated, lookups, description_cache>>
    /\ UNCHANGED outside_run

\* Line 731.
DetectColumns ==
    /\ pc = "read"
    /\ column_map' = detect_columns(headers)
    /\ pc' = "detected"
    /\ UNCHANGED <<headers, rows, parsed_items, warnings, tall_items, summed_items,
                   consolidated, lookups, description_cache, raised>>
    /\ UNCHANGED outside_run

\* Line 737: parse_rows_to_items returns, or raises and ends read_csv.
ParseRows ==
    /\ pc = "detected"
    /\ LET r == parse_rows_to_items(rows, column_map)
       IN  IF r.raised # ""
           THEN /\ raised' = r.raised
                /\ pc' = "raised"
                /\ UNCHANGED <<parsed_items, warnings>>
           ELSE /\ parsed_items' = r.items
                /\ warnings' = r.warnings
                /\ pc' = "parsed"
                /\ UNCHANGED raised
    /\ UNCHANGED <<headers, rows, column_map, tall_items, summed_items,
                   consolidated, lookups, description_cache>>
    /\ UNCHANGED outside_run

\* Line 750.
ProcessTallSizes ==
    /\ pc = "parsed"
    /\ tall_items' = process_tall_sizes(parsed_items)
    /\ pc' = "expanded"
    /\ UNCHANGED <<headers, rows, column_map, parsed_items, warnings, summed_items,
                   consolidated, lookups, description_cache, raised>>
    /\ UNCHANGED outside_run

\* Line 755.
SumDuplicates ==
    /\ pc = "expanded"
    /\ summed_items' = sum_duplicates(tall_items)
    /\ pc' = "summed"
    /\ UNCHANGED <<headers, rows, column_map, parsed_items, warnings, tall_items,
                   consolidated, lookups, description_cache, raised>>
    /\ UNCHANGED outside_run

\* Line 760.
Consolidate ==
    /\ pc = "summed"
    /\ consolidated' = consolidate_items(summed_items)
    /\ pc' = "consolidated"
    /\ UNCHANGED <<headers, rows, column_map, parsed_items, warnings, tall_items,
                   summed_items, lookups, description_cache, raised>>
    /\ UNCHANGED outside_run

\* Line 765, lines 633-641: no vendor credentials are configured.
EnrichNoVendor ==
    /\ pc = "consolidated"
    /\ pc' = "done"
    /\ UNCHANGED <<headers, rows, column_map, parsed_items, warnings, tall_items,
                   summed_items, consolidated, lookups, description_cache, raised>>
    /\ UNCHANGED outside_run

\* Line 765, lines 667-701: one lookup for each style number of the set, then
\* the records take the descriptions found.
EnrichWithVendor ==
    /\ pc = "consolidated"
    /\ \E cache \in [{s \in UniqueStyles(consolidated) : s # <<>>} -> LookupAnswers] :
          /\ description_cache' = cache
          /\ lookups' = [s \in DOMAIN cache |-> 1]
          /\ consolidated' = [i \in 1..Len(consolidated) |->
                                 EnrichRecord(consolidated[i], cache)]
    /\ pc' = "done"
    /\ UNCHANGED <<headers, rows, column_map, parsed_items, warnings, tall_items,
                   summed_items, raised>>
    /\ UNCHANGED outside_run

Next ==
    \/ ReadFileRaw
    \/ ReadFileFails
    \/ DetectColumns
    \/ ParseRows
    \/ ProcessTallSizes
    \/ SumDuplicates
    \/ Consolidate
    \/ EnrichNoVendor
    \/ EnrichWithVendor

Spec == Init /\ [][Next]_vars

(***************************************************************************)
(* The size functions on their own.  A size text is any text a caller may  *)
(* hand to parse_size_field: a word in some letter case, with white space  *)
(* before it and white space or an annotation after it.                    *)
(***************************************************************************)
\* The words of the size texts, in upper case: every key of
\* SIZE_MAP_NORMALIZE, tall codes, and words the table does not hold.
SizeWords ==
    {
      <<"S","M","A","L","L">>,
      <<"M","E","D","I","U","M">>,
      <<"L","A","R","G","E">>,
      <<"E","X","T","R","A"," ","L","A","R","G","E">>,
      <<"E","X","T","R","A","L","A","R","G","E">>,
      <<"Y","X","S">>,
      <<"Y","-","X","S">>,
      <<"Y","S">>,
      <<"Y","-","S">>,
      <<"Y","M">>,
      <<"Y","-","M">>,
      <<"Y","L">>,
      <<"Y","-","L">>,
      <<"Y","X","L">>,
      <<"Y","-","X","L">>,
      <<"X","S">>,
      <<"S">>,
      <<"M">>,
      <<"L">>,
      <<"X","L">>,
      <<"2","X","L">>,
      <<"X","X","L">>,
      <<"3","X","L">>,
      <<"X","X","X","L">>,
      <<"4","X","L">>,
      <<"5","X","L">>,
      <<"6","X","L">>,
      <<"6","M">>,
      <<"1","2","M">>,
      <<"1","8","M">>,
      <<"2","4","M">>,
      <<"2","T">>,
      <<"3","T">>,
      <<"4","T">>,
      <<"5","T">>,
      <<"L","T">>,
      <<"X","L","T">>,
      <<"2","X","L","T">>,
      <<"X","X","L","T">>,
      <<"L","T","T">>,
      <<"T">>,
      <<>>,
      <<"O","N","E","S","I","Z","E">>,
      <<"X","L","/","2","X","L">>
    }

\* A word with its first letter in upper case and the rest in lower case.
Capitalized(text) ==
    IF text = <<>> THEN text ELSE <<UpperChar(Head(text))>> \o Lower(Tail(text))

SizeLeads == { <<>>, <<" ">> }

SizeTrails == { <<>>, <<" ">>, <<" ","(","$","3",".","5","0",")">>, <<"(","X","L",")">> }

SizeTexts ==
    { [lead |-> l, word |-> v, trail |-> t] :
         l \in SizeLeads,
         v \in UNION { {w, Lower(w), Capitalized(w)} : w \in SizeWords },
         t \in SizeTrails }

\* The text of a size text.
TextOf(s) == s.lead \o s.word \o s.trail

SizeInit ==
    /\ Init
    /\ size_pc = "idle"

\* A caller has a size text.
GiveSize ==
    /\ size_pc = "idle"
    /\ \E s \in SizeTexts : size_str' = s
    /\ size_pc' = "given"
    /\ UNCHANGED <<size_code, size_again, tall_code, tall, base_size>>
    /\ UNCHANGED outside_size

\* parse_size_field(size_str), lines 101-121.
ParseSizeField ==
    /\ size_pc = "given"
    /\ size_code' = parse_size_field(TextOf(size_str))
    /\ size_pc' = "parsed"
    /\ UNCHANGED <<size_str, size_again, tall_code, tall, base_size>>
    /\ UNCHANGED outside_size

\* parse_size_field applied to its own result.
ParseSizeFieldAgain ==
    /\ size_pc = "parsed"
    /\ size_again' = parse_size_field(size_code)
    /\ size_pc' = "reparsed"
    /\ UNCHANGED <<size_str, size_code, tall_code, tall, base_size>>
    /\ UNCHANGED outside_size

\* is_tall_size and get_base_size, lines 124-140, of the text as given or of
\* its code.
TallOfSize ==
    /\ size_pc = "reparsed"
    /\ \E code \in {TextOf(size_str), size_code} :
          /\ tall_code' = code
          /\ tall' = is_tall_size(code)
          /\ base_size' = get_base_size(code)
    /\ size_pc' = "tall"
    /\ UNCHANGED <<size_str, size_code, size_again>>
    /\ UNCHANGED outside_size

SizeNext ==
    \/ GiveSize
    \/ ParseSizeField
    \/ ParseSizeFieldAgain
    \/ TallOfSize

SizeSpec == SizeInit /\ [][SizeNext]_vars

(***************************************************************************)
(* A process that enriches records, up to MaxEnrichCalls times.            *)
(***************************************************************************)
VendorInit ==
    /\ RunIdle
    /\ SizeIdle
    /\ WorkerIdle
    /\ GuiIdle
    /\ vendor_pc = "ready"
    /\ has_ssactivewear \in BOOLEAN
    /\ has_sanmar \in BOOLEAN
    /\ ssactivewear_cache = NoCatalog
    /\ ssactivewear_cache_attempted = FALSE
    /\ sanmar_cache = <<>>
    /\ sanmar_client = "None"
    /\ sanmar_service \in SanmarServices
    /\ items = <<>>
    /\ unique_styles = {}
    /\ style_cache = <<>>
    /\ enrich_calls = 0
    /\ catalog_requests = 0
    /\ cache_history = <<>>
    /\ sanmar_fetched = <<>>
    /\ last_lookup = NoLookup

\* enrich_items_with_descriptions is called, lines 630-671, with new records
\* or with the records the last call returned.
EnrichCall ==
    /\ vendor_pc = "ready"
    /\ enrich_calls < MaxEnrichCalls
    /\ \E records \in VendorItems \cup {items} :
          /\ records # <<>>
          /\ items' = records
          /\ style_cache' = <<>>
          /\ IF ~has_ssactivewear /\ ~has_sanmar
             THEN \* line 641: the records are returned as they are
                  /\ unique_styles' = {}
                  /\ enrich_calls' = enrich_calls + 1
                  /\ vendor_pc' = "ready"
             ELSE /\ unique_styles' = { st \in UniqueStyles(records) : st # <<>> }
                  /\ enrich_calls' = enrich_calls
                  /\ vendor_pc' = "looking"
    /\ UNCHANGED <<has_ssactivewear, has_sanmar, ssactivewear_cache,
                   ssactivewear_cache_attempted, sanmar_cache, sanmar_client,
                   sanmar_service, catalog_requests, cache_history, sanmar_fetched,
                   last_lookup>>
    /\ UNCHANGED outside_vendor

\* What the services can do during one lookup; a service that cannot be asked
\* in the current state has one outcome, which nothing reads.
ResponsesNow ==
    IF has_ssactivewear /\ ~ssactivewear_cache_attempted
    THEN CatalogResponses ELSE {[kind |-> "transport", body |-> <<>>]}

OutcomesNow ==
    IF has_sanmar /\ sanmar_client = "None" THEN ClientOutcomes ELSE {"client"}

TransportsNow == IF has_sanmar THEN BOOLEAN ELSE {FALSE}

\* One turn of the loop of lines 673-676: lookup_product_description for a
\* style of the set, whatever the services do meanwhile.
LookupStyle ==
    /\ vendor_pc = "looking"
    /\ \E style_num \in unique_styles, response \in ResponsesNow,
          outcome \in OutcomesNow, transport \in TransportsNow :
          LET state == [has_ssactivewear |-> has_ssactivewear,
                        has_sanmar |-> has_sanmar,
                        ssactivewear_cache |-> ssactivewear_cache,
                        ssactivewear_cache_attempted |-> ssactivewear_cache_attempted,
                        sanmar_cache |-> sanmar_cache,
                        sanmar_client |-> sanmar_client]
              known == Upper(Strip(style_num)) \in DOMAIN sanmar_service
              world == [response |-> response, outcome |-> outcome,
                        transport |-> transport,
                        answer |-> IF known THEN sanmar_service[Upper(Strip(style_num))]
                                   ELSE [kind |-> "not_found", product |-> NoProduct]]
          IN  \E r \in {lookup_product_description(style_num, state, world)} :
              /\ last_lookup' = [style |-> r.style, consulted |-> r.consulted,
                                 answers |-> r.answers, description |-> r.description,
                                 failed |-> r.failed,
                                 from_cache |-> r.from_cache, requested |-> r.requested,
                                 raised |-> r.raised]
              /\ ssactivewear_cache' = r.ssactivewear_cache
              /\ ssactivewear_cache_attempted' = r.ssactivewear_cache_attempted
              /\ sanmar_cache' = r.sanmar_cache
              /\ sanmar_client' = r.sanmar_client
              /\ catalog_requests' = catalog_requests + (IF r.requested THEN 1 ELSE 0)
              /\ cache_history' = IF r.ssactivewear_cache # ssactivewear_cache
                                  THEN Append(cache_history, r.ssactivewear_cache)
                                  ELSE cache_history
              /\ sanmar_fetched' =
                     IF r.fetched
                     THEN [u \in DOMAIN sanmar_fetched \cup {Upper(Strip(style_num))} |->
                              IF u = Upper(Strip(style_num)) THEN r.description
                              ELSE sanmar_fetched[u]]
                     ELSE sanmar_fetched
              /\ IF r.raised # ""
                 THEN /\ vendor_pc' = "raised"
                      /\ UNCHANGED <<unique_styles, style_cache>>
                 ELSE /\ vendor_pc' = "looking"
                      /\ unique_styles' = unique_styles \ {style_num}
                      /\ style_cache' = [st \in DOMAIN style_cache \cup {style_num} |->
                                            IF st = style_num THEN r.description
                                            ELSE style_cache[st]]
    /\ UNCHANGED <<has_ssactivewear, has_sanmar, sanmar_service, items, enrich_calls>>
    /\ UNCHANGED outside_vendor

\* Lines 678-701: every style is looked up; the records take the descriptions
\* found and are returned.
EnrichReturn ==
    /\ vendor_pc = "looking"
    /\ unique_styles = {}
    /\ items' = [i \in 1..Len(items) |-> EnrichRecord(items[i], style_cache)]
    /\ enrich_calls' = enrich_calls + 1
    /\ vendor_pc' = "ready"
    /\ UNCHANGED <<has_ssactivewear, has_sanmar, ssactivewear_cache,
                   ssactivewear_cache_attempted, sanmar_cache, sanmar_client,
                   sanmar_service, unique_styles, style_cache, catalog_requests,
                   cache_history, sanmar_fetched, last_lookup>>
    /\ UNCHANGED outside_vendor

VendorNext ==
    \/ EnrichCall
    \/ LookupStyle
    \/ EnrichReturn

VendorSpec == VendorInit /\ [][VendorNext]_vars

(***************************************************************************)
(* One run of WorkerThread.run, lines 28-113.  A step goes from one call    *)
(* that leaves the thread (read_csv, a Printavo call) to the next.          *)
(***************************************************************************)
WorkerInit ==
    /\ RunIdle
    /\ SizeIdle
    /\ VendorIdle
    /\ GuiIdle
    /\ worker_pc = "start"
    /\ csv_file \in WorkerFiles
    /\ worker_records = <<>>
    /\ api_calls = <<>>
    /\ created = <<>>
    /\ single_idx = 0
    /\ finished_signals = <<>>
    /\ last_signal = "none"

\* finished_signal.emit(success, message)
EmitFinished(success, message) ==
    /\ finished_signals' = Append(finished_signals,
                                  [success |-> success, message |-> message])
    /\ last_signal' = "finished"

\* log_signal.emit, once or more, and no finished_signal
EmitLog ==
    /\ last_signal' = "log"
    /\ UNCHANGED finished_signals

\* Lines 110-113: the handler of the outer try.
OuterExcept(exc) ==
    /\ EmitFinished(FALSE, ErrorMessage(exc))
    /\ worker_pc' = "finished"

\* What a call sends to Printavo.
ApiCall(call, position, inputs) ==
    [call |-> call, position |-> position, inputs |-> inputs]

\* Lines 105-108.
ReportSuccess ==
    /\ EmitFinished(TRUE, QuoteCreated)
    /\ worker_pc' = "finished"

\* Lines 32-59 without the check of line 44: an empty list goes on to
\* create_quote.
RunReadCsv_NoEmptyCheck ==
    /\ worker_pc = "start"
    /\ \E r \in {read_csv(csv_file)} :
           IF r.raised # ""
           THEN /\ OuterExcept(r.raised)
                /\ UNCHANGED worker_records
           ELSE /\ worker_records' = r.consolidated
                /\ EmitLog
                /\ worker_pc' = "quote"
    /\ UNCHANGED <<csv_file, api_calls, created, single_idx>>
    /\ UNCHANGED outside_worker

\* Lines 32-59: the logs of the start, read_csv, the check of line 44, the
\* logs of the records.
RunReadCsv ==
    /\ worker_pc = "start"
    /\ \E r \in {read_csv(csv_file)} :
           IF r.raised # ""
           THEN /\ OuterExcept(r.raised)
                /\ UNCHANGED worker_records
           ELSE IF r.consolidated = <<>>
           THEN /\ EmitFinished(FALSE, NoValidItems)
                /\ worker_pc' = "finished"
                /\ worker_records' = r.consolidated
           ELSE /\ worker_records' = r.consolidated
                /\ EmitLog
                /\ worker_pc' = "quote"
    /\ UNCHANGED <<csv_file, api_calls, created, single_idx>>
    /\ UNCHANGED outside_worker

\* Lines 60-67 with a failure of create_quote that emits nothing.
RunCreateQuote_Silent ==
    /\ worker_pc = "quote"
    /\ api_calls' = Append(api_calls, ApiCall("create_quote", 0, <<>>))
    /\ \E outcome \in {"ok", "RuntimeError"} :
          IF outcome = "ok"
          THEN /\ EmitLog
               /\ worker_pc' = "group"
          ELSE /\ worker_pc' = "finished"
               /\ UNCHANGED <<finished_signals, last_signal>>
    /\ UNCHANGED <<csv_file, worker_records, created, single_idx>>
    /\ UNCHANGED outside_worker

\* Lines 60-67: create_quote returns the quote or raises.
RunCreateQuote ==
    /\ worker_pc = "quote"
    /\ api_calls' = Append(api_calls, ApiCall("create_quote", 0, <<>>))
    /\ \E outcome \in {"ok", "RuntimeError"} :
          IF outcome = "ok"
          THEN /\ EmitLog
               /\ worker_pc' = "group"
          ELSE OuterExcept(outcome)
    /\ UNCHANGED <<csv_file, worker_records, created, single_idx>>
    /\ UNCHANGED outside_worker

\* Lines 68-71: create_line_item_group returns the group or raises.
RunCreateGroup ==
    /\ worker_pc = "group"
    /\ api_calls' = Append(api_calls, ApiCall("create_line_item_group", 0, <<>>))
    /\ \E outcome \in {"ok", "RuntimeError"} :
          IF outcome = "ok"
          THEN /\ EmitLog
               /\ worker_pc' = "batch"
          ELSE OuterExcept(outcome)
    /\ UNCHANGED <<csv_file, worker_records, created, single_idx>>
    /\ UNCHANGED outside_worker

\* Lines 72-81 and 105-108: the batch call creates every record and the run
\* reports success, or it raises and the loop of line 83 begins.
RunCreateBatch ==
    /\ worker_pc = "batch"
    /\ api_calls' = Append(api_calls,
                           ApiCall("create_line_items_batch", 0,
                                   BatchInputs(worker_records)))
    /\ \E outcome \in {"ok", "RuntimeError"} :
          IF outcome = "ok"
          THEN /\ created' = [i \in 1..Len(worker_records) |-> i]
               /\ ReportSuccess
               /\ UNCHANGED single_idx
          ELSE /\ EmitLog
               /\ single_idx' = 1
               /\ worker_pc' = "single"
               /\ UNCHANGED created
    /\ UNCHANGED <<csv_file, worker_records>>
    /\ UNCHANGED outside_worker

\* Lines 83-94: one turn of the loop.  The single call creates the record,
\* or raises with a message that speaks of a rate limit, or raises otherwise.
RunCreateSingle ==
    /\ worker_pc = "single"
    /\ single_idx <= Len(worker_records)
    /\ api_calls' = Append(api_calls,
                           ApiCall("create_line_item_single", single_idx,
                                   <<SingleInput(worker_records[single_idx], single_idx)>>))
    /\ \E outcome \in {"ok", "rate", "other"} :
          /\ created' = IF outcome = "ok" THEN Append(created, single_idx) ELSE created
          /\ single_idx' = IF outcome = "rate" THEN single_idx ELSE single_idx + 1
          /\ worker_pc' = IF outcome = "rate" THEN "retry" ELSE "single"
    /\ EmitLog
    /\ UNCHANGED <<csv_file, worker_records>>
    /\ UNCHANGED outside_worker

\* Lines 95-101: the one retry after the wait.
RunRetrySingle ==
    /\ worker_pc = "retry"
    /\ api_calls' = Append(api_calls,
                           ApiCall("create_line_item_single", single_idx,
                                   <<SingleInput(worker_records[single_idx], single_idx)>>))
    /\ \E outcome \in {"ok", "RuntimeError"} :
          created' = IF outcome = "ok" THEN Append(created, single_idx) ELSE created
    /\ single_idx' = single_idx + 1
    /\ worker_pc' = "single"
    /\ EmitLog
    /\ UNCHANGED <<csv_file, worker_records>>
    /\ UNCHANGED outside_worker

\* Lines 103-108: the loop is over.
RunEndFallback ==
    /\ worker_pc = "single"
    /\ single_idx > Len(worker_records)
    /\ ReportSuccess
    /\ UNCHANGED <<csv_file, worker_records, api_calls, created, single_idx>>
    /\ UNCHANGED outside_worker

WorkerNext ==
    \/ RunReadCsv
    \/ RunCreateQuote
    \/ RunCreateGroup
    \/ RunCreateBatch
    \/ RunCreateSingle
    \/ RunRetrySingle
    \/ RunEndFallback

WorkerSpec == WorkerInit /\ [][WorkerNext]_vars

(***************************************************************************)
(* The main window and what its user can do.  The SettingsDialog is modal: *)
(* while it is shown the widgets of the main window take no input.  The    *)
(* signals of a WorkerThread are delivered whatever is shown.              *)
(***************************************************************************)
\* The texts of contact_input.
ContactTexts == {<<>>, <<" ">>, <<"7">>, <<"7", " ">>}

GuiInit ==
    /\ RunIdle
    /\ SizeIdle
    /\ VendorIdle
    /\ WorkerIdle
    /\ csv_path = NoPath
    /\ contact_text = <<>>
    /\ printavo_credentials \in BOOLEAN
    /\ create_btn = FALSE
    /\ select_btn = TRUE
    /\ ai_process_btn = TRUE
    /\ contact_input = TRUE
    /\ note_input = TRUE
    /\ settings_open = FALSE
    /\ worker = 0
    /\ running = {}
    /\ started = 0

\* update_create_button, lines 856-863: what create_btn.setEnabled is given.
update_create_button(path, text, credentials) ==
    path # NoPath /\ Len(Strip(text)) > 0 /\ credentials

\* settings_btn is clicked, lines 788-790; the button is never disabled.
ShowSettings ==
    /\ ~settings_open
    /\ settings_open' = TRUE
    /\ UNCHANGED <<csv_path, contact_text, printavo_credentials, create_btn,
                   select_btn, ai_process_btn, contact_input, note_input, worker,
                   running, started>>
    /\ UNCHANGED outside_gui

\* OK in the dialog, lines 368-470 and 791-793: save_credentials stores a
\* Printavo email and token and accepts, and show_settings then calls
\* update_create_button; or it warns and the dialog stays.
SaveCredentials ==
    /\ settings_open
    /\ \E accepted \in BOOLEAN :
          IF accepted
          THEN /\ printavo_credentials' = TRUE
               /\ settings_open' = FALSE
               /\ create_btn' = update_create_button(csv_path, contact_text, TRUE)
          ELSE UNCHANGED <<printavo_credentials, settings_open, create_btn>>
    /\ UNCHANGED <<csv_path, contact_text, select_btn, ai_process_btn,
                   contact_input, note_input, worker, running, started>>
    /\ UNCHANGED outside_gui

\* Cancel in the dialog, line 57.
RejectSettings ==
    /\ settings_open
    /\ settings_open' = FALSE
    /\ UNCHANGED <<csv_path, contact_text, printavo_credentials, create_btn,
                   select_btn, ai_process_btn, contact_input, note_input, worker,
                   running, started>>
    /\ UNCHANGED outside_gui

\* ai_process_btn is clicked and the dialog it opens hands over a file:
\* open_ai_processing and on_ai_csv_generated, lines 742-786.
OnAiCsvGenerated ==
    /\ ~settings_open
    /\ ai_process_btn
    /\ csv_path' = "ai.csv"
    /\ create_btn' = update_create_button("ai.csv", contact_text,
                                          printavo_credentials)
    /\ UNCHANGED <<contact_text, printavo_credentials, select_btn, ai_process_btn,
                   contact_input, note_input, settings_open, worker, running,
                   started>>
    /\ UNCHANGED outside_gui

\* select_btn is clicked and a file is chosen, lines 829-854.
SelectFile ==
    /\ ~settings_open
    /\ select_btn
    /\ csv_path' = "order.csv"
    /\ create_btn' = update_create_button("order.csv", contact_text,
                                          printavo_credentials)
    /\ UNCHANGED <<contact_text, printavo_credentials, select_btn, ai_process_btn,
                   contact_input, note_input, settings_open, worker, running,
                   started>>
    /\ UNCHANGED outside_gui

\* The user edits contact_input; textChanged calls update_create_button,
\* line 656.
EditContact ==
    /\ ~settings_open
    /\ contact_input
    /\ \E text \in ContactTexts \ {contact_text} :
          /\ contact_text' = text
          /\ create_btn' = update_create_button(csv_path, text, printavo_credentials)
    /\ UNCHANGED <<csv_path, printavo_credentials, select_btn, ai_process_btn,
                   contact_input, note_input, settings_open, worker, running,
                   started>>
    /\ UNCHANGED outside_gui

\* create_btn is clicked: create_quote, lines 865-892.
ClickCreate ==
    /\ ~settings_open
    /\ create_btn
    /\ started < MaxWorkers
    /\ IF csv_path = NoPath \/ Strip(contact_text) = <<>>
       THEN UNCHANGED <<create_btn, select_btn, ai_process_btn, contact_input,
                        note_input, worker, running, started>>
       ELSE /\ create_btn' = FALSE
            /\ select_btn' = FALSE
            /\ ai_process_btn' = FALSE
            /\ contact_input' = FALSE
            /\ note_input' = FALSE
            /\ worker' = started + 1
            /\ running' = running \cup {started + 1}
            /\ started' = started + 1
    /\ UNCHANGED <<csv_path, contact_text, printavo_credentials, settings_open>>
    /\ UNCHANGED outside_gui

\* finished_signal of a running WorkerThread is delivered: on_finished,
\* lines 901-913.
OnFinished ==
    /\ \E w \in running : running' = running \ {w}
    /\ select_btn' = TRUE
    /\ ai_process_btn' = TRUE
    /\ contact_input' = TRUE
    /\ note_input' = TRUE
    /\ create_btn' = update_create_button(csv_path, contact_text, printavo_credentials)
    /\ UNCHANGED <<csv_path, contact_text, printavo_credentials, settings_open,
                   worker, started>>
    /\ UNCHANGED outside_gui

GuiNext ==
    \/ ShowSettings
    \/ SaveCredentials
    \/ RejectSettings
    \/ SelectFile
    \/ OnAiCsvGenerated
    \/ EditContact
    \/ ClickCreate
    \/ OnFinished

GuiSpec == GuiInit /\ [][GuiNext]_vars

(***************************************************************************)
(* Properties of the pipeline.                                             *)
(***************************************************************************)
\* The places of a run at which consolidate_items has returned.
AfterConsolidate == pc \in {"consolidated", "done"}

\* The places of a run at which sum_duplicates has returned.
AfterSum == pc \in {"summed", "consolidated", "done"}

\* The places of a run at which process_tall_sizes has returned.
AfterExpand == pc \in {"expanded", "summed", "consolidated", "done"}

\* The places of a run at which parse_rows_to_items has returned.
AfterParse == pc \in {"parsed", "expanded", "summed", "consolidated", "done"}

\* The sum of the quantities of the items at the indices idx.
RECURSIVE QuantityAt(_, _)
QuantityAt(its, idx) ==
    IF idx = {} THEN 0
    ELSE LET i == CHOOSE j \in idx : TRUE
         IN  its[i].quantity + QuantityAt(its, idx \ {i})

\* Two texts that differ at most in letter case.
SameIgnoringCase(a, b) == Upper(a) = Upper(b)

\* The file has exactly two rows, both valid, whose item numbers and colors
\* differ at most in letter case and whose size cells normalize to one code.
TwoRowsOneKey ==
    /\ Len(rows) = 2
    /\ Len(parsed_items) = 2
    /\ SameIgnoringCase(Cell(rows[1], column_map.item_num), Cell(rows[2], column_map.item_num))
    /\ SameIgnoringCase(Cell(rows[1], column_map.color), Cell(rows[2], column_map.color))
    /\ parse_size_field(Cell(rows[1], column_map.size))
         = parse_size_field(Cell(rows[2], column_map.size))

\* C1: two rows whose item number and color differ only in letter case and
\* whose size cells normalize to the same code end as exactly one consolidated
\* record, with the first row's item number and color and a single sizes entry
\* holding the sum of the two quantities.
C1_TwoRowsOneRecord ==
    (pc = "consolidated" /\ TwoRowsOneKey) =>
        /\ Len(consolidated) = 1
        /\ consolidated[1].item_num = FixItemNum(Cell(rows[1], column_map.item_num))
        /\ consolidated[1].color = Cell(rows[1], column_map.color)
        /\ Len(consolidated[1].sizes) = 1
        /\ consolidated[1].sizes[1].quantity
             = parsed_items[1].quantity + parsed_items[2].quantity

\* C1's case: the rows are written differently (letter case, size spelling).
C1_Witness ==
    /\ pc = "consolidated"
    /\ TwoRowsOneKey
    /\ Cell(rows[1], column_map.item_num) # Cell(rows[2], column_map.item_num)
    /\ Cell(rows[1], column_map.color) # Cell(rows[2], column_map.color)
    /\ Cell(rows[1], column_map.size) # Cell(rows[2], column_map.size)
    /\ consolidated[1].sizes[1].quantity = 8

\* The (item_num, color, size) triple of an item, trimmed and in upper case.
Triple(item) == <<Upper(Strip(item.item_num)), Upper(Strip(item.color)), Upper(Strip(item.size))>>

\* The indices of the items with the triple t.
WithTriple(its, t) == { i \in 1..Len(its) : Triple(its[i]) = t }

\* The smallest element of a non-empty set of numbers.
Least(S) == CHOOSE i \in S : \A j \in S : i <= j

\* C2: sum_duplicates returns exactly one item per distinct trimmed,
\* case-insensitive (item_num, color, size) triple of its input; its quantity
\* is the sum over the input items with that triple, and its item_num, color
\* and description are those of the first of them.
C2_SumDuplicates ==
    AfterSum =>
        /\ \A i, j \in 1..Len(summed_items) :
              Triple(summed_items[i]) = Triple(summed_items[j]) => i = j
        /\ { Triple(summed_items[i]) : i \in 1..Len(summed_items) }
             = { Triple(tall_items[i]) : i \in 1..Len(tall_items) }
        /\ \A i \in 1..Len(summed_items) :
              LET members == WithTriple(tall_items, Triple(summed_items[i]))
                  first   == tall_items[Least(members)]
              IN  /\ summed_items[i].quantity = QuantityAt(tall_items, members)
                  /\ summed_items[i].item_num = first.item_num
                  /\ summed_items[i].color = first.color
                  /\ summed_items[i].description = first.description

\* C2's case: two items with one triple, written differently, were summed.
C2_Witness ==
    /\ pc = "summed"
    /\ Len(tall_items) = 2
    /\ Len(summed_items) = 1
    /\ tall_items[1].item_num # tall_items[2].item_num
    /\ tall_items[1].description # tall_items[2].description
    /\ summed_items[1].quantity = 8

\* The file has exactly two valid rows with the same item number and color,
\* one with a tall size and one with the base size of that tall size.
TallAndBaseRows ==
    /\ Len(parsed_items) = 2
    /\ parsed_items[1].item_num = parsed_items[2].item_num
    /\ parsed_items[1].color = parsed_items[2].color
    /\ \E t, b \in 1..2 :
          /\ is_tall_size(parsed_items[t].size)
          /\ ~is_tall_size(parsed_items[b].size)
          /\ parsed_items[b].size = get_base_size(parsed_items[t].size)

\* C3: a tall item and an item of its base size, same item number and color,
\* in either order, are expanded and summed to a single item of the base size
\* whose quantity is the sum and whose description contains " - Tall".
C3_TallThenSum ==
    (pc = "summed" /\ TallAndBaseRows) =>
        /\ Len(summed_items) = 1
        /\ ~is_tall_size(summed_items[1].size)
        /\ summed_items[1].quantity = parsed_items[1].quantity + parsed_items[2].quantity
        /\ Contains(summed_items[1].description, TallSuffix)

\* The (item_num, color) pair of an item or record, in upper case.
Pair(item) == <<Upper(item.item_num), Upper(item.color)>>

\* The items with the pair p, in input order.
WithPair(its, p) == SelectSeq(its, LAMBDA it : Pair(it) = p)

\* The sum of the quantities of a sizes list.
RECURSIVE SizesTotal(_)
SizesTotal(sizes) ==
    IF sizes = <<>> THEN 0 ELSE sizes[1].quantity + SizesTotal(Tail(sizes))

\* C4: consolidate_items returns exactly one record per distinct
\* case-insensitive (item_num, color) pair of its input; the record's sizes
\* list has one entry per contributing item in input order, total_quantity is
\* the sum of the quantities of the sizes list, and item_num, color and
\* description are those of the first contributing item.
C4_Consolidate ==
    pc = "consolidated" =>
        /\ \A i, j \in 1..Len(consolidated) :
              Pair(consolidated[i]) = Pair(consolidated[j]) => i = j
        /\ { Pair(consolidated[i]) : i \in 1..Len(consolidated) }
             = { Pair(summed_items[i]) : i \in 1..Len(summed_items) }
        /\ \A i \in 1..Len(consolidated) :
              LET r       == consolidated[i]
                  members == WithPair(summed_items, Pair(r))
              IN  /\ Len(r.sizes) = Len(members)
                  /\ \A k \in 1..Len(members) :
                        /\ r.sizes[k].size = members[k].size
                        /\ r.sizes[k].quantity = members[k].quantity
                  /\ r.total_quantity = SizesTotal(r.sizes)
                  /\ r.item_num = members[1].item_num
                  /\ r.color = members[1].color
                  /\ r.description = members[1].description

\* C4's case: two items written in different letter case and with different
\* descriptions became one record with two sizes entries.
C4_Witness ==
    /\ pc = "consolidated"
    /\ Len(summed_items) = 2
    /\ Len(consolidated) = 1
    /\ summed_items[1].item_num # summed_items[2].item_num
    /\ summed_items[1].description # summed_items[2].description
    /\ Len(consolidated[1].sizes) = 2

\* parse_rows_to_items has been called with the required columns resolved, and
\* has returned or raised.
ParseAttempted ==
    /\ pc \notin {"start", "read", "detected"}
    /\ raised \notin {"FileNotFoundError", "RuntimeError"}
    /\ ~(column_map.qty = None \/ column_map.item_num = None)

\* A quantity cell that is empty, not a finite number, zero or negative.
BadQuantityCell(cell) ==
    \/ cell = <<>>
    \/ ParseFloat(cell).kind # "num"
    \/ IntOfFloat(ParseFloat(cell)) <= 0

\* A row that is not entirely empty and must be dropped: its quantity cell is
\* bad or its item number cell is empty after trimming.
MustBeDropped(row) ==
    /\ ~IsEmptyRow(row)
    /\ \/ BadQuantityCell(Cell(row, column_map.qty))
       \/ Strip(Cell(row, column_map.item_num)) = <<>>

\* C5: every item of parse_rows_to_items has a quantity greater than zero and
\* a non-empty item_num, and every non-empty row with an empty, zero, negative
\* or non-numeric quantity or without an item number is absent from the items
\* and has a warning naming its row number.
C5_ParsedItemsValid ==
    ParseAttempted =>
        /\ \A i \in 1..Len(parsed_items) :
              /\ parsed_items[i].quantity \in Nat \ {0}
              /\ parsed_items[i].item_num # <<>>
        /\ \A n \in 1..Len(rows) :
              MustBeDropped(rows[n]) =>
                 /\ \A i \in 1..Len(parsed_items) : parsed_items[i].row_num # n + 1
                 /\ \E w \in 1..Len(warnings) : warnings[w].row_num = n + 1

\* C6: with the qty and item_num columns resolved, parse_rows_to_items never
\* raises, whatever the rows hold.
C6_ParseNeverRaises ==
    ParseAttempted => pc # "raised"

\* detect_columns has returned a column map.
Detected ==
    /\ pc \notin {"start", "read"}
    /\ raised \notin {"FileNotFoundError", "RuntimeError"}

\* C7: when qty or item_num resolved to None, parse_rows_to_items raises the
\* file-level error before it examines a row and returns neither items nor
\* warnings, and read_csv ends there: no record is produced and no vendor
\* lookup is made.
C7_MissingColumnsFatal ==
    (Detected /\ (column_map.qty = None \/ column_map.item_num = None)) =>
        /\ pc \in {"detected", "raised"}
        /\ pc = "raised" => raised = "ValueError"
        /\ parsed_items = <<>>
        /\ warnings = <<>>
        /\ consolidated = <<>>
        /\ lookups = <<>>

\* C7's case: the run of a file with rows ended with the file-level error,
\* although its first row holds a quantity that would have been examined.
C7_Witness ==
    /\ pc = "raised"
    /\ raised = "ValueError"
    /\ column_map.qty = None
    /\ column_map.item_num # None
    /\ Len(rows) = 2
    /\ ~IsEmptyRow(rows[1])

\* C8: every consolidated record that holds a sizes entry contributed by a
\* tall-sized input row carries " - Tall" in its description.
C8_TallNeverLost ==
    pc = "consolidated" =>
        \A i \in 1..Len(consolidated) :
            (\E k \in 1..Len(parsed_items) :
                /\ is_tall_size(parsed_items[k].size)
                /\ Pair(parsed_items[k]) = Pair(consolidated[i]))
            => Contains(consolidated[i].description, TallSuffix)

\* Every size of the items is a fixed point of parse_size_field.
SizesNormalized(its) ==
    \A i \in 1..Len(its) : parse_size_field(its[i].size) = its[i].size

\* C9: after the row parser, after the tall-size expander and after the
\* duplicate summer, every item's size is a normalized size code.
C9_SizesAreNormalized ==
    /\ AfterParse => SizesNormalized(parsed_items)
    /\ AfterExpand => SizesNormalized(tall_items)
    /\ AfterSum => SizesNormalized(summed_items)

SizeParsed == size_pc \in {"parsed", "reparsed", "tall"}

\* The sizes with their canonical codes: the spelled-out sizes and aliases,
\* and the two codes that stand for themselves.
CanonicalCodes ==
    {
      <<<<"S","M","A","L","L">>, <<"S">>>>,
      <<<<"M","E","D","I","U","M">>, <<"M">>>>,
      <<<<"L","A","R","G","E">>, <<"L">>>>,
      <<<<"E","X","T","R","A"," ","L","A","R","G","E">>, <<"X","L">>>>,
      <<<<"E","X","T","R","A","L","A","R","G","E">>, <<"X","L">>>>,
      <<<<"X","X","L">>, <<"2","X","L">>>>,
      <<<<"X","X","X","L">>, <<"3","X","L">>>>,
      <<<<"Y","-","S">>, <<"Y","S">>>>,
      <<<<"S">>, <<"S">>>>,
      <<<<"2","X","L">>, <<"2","X","L">>>>
    }

\* C11: a spelled-out or aliased size, in any letter case, with white space
\* around it or an annotation after it, is mapped to its canonical code:
\* SMALL -> S, MEDIUM -> M, LARGE -> L, EXTRA LARGE and EXTRALARGE -> XL,
\* XXL -> 2XL, XXXL -> 3XL, Y-S -> YS.
C11_AliasToCanonical ==
    SizeParsed =>
        \A a \in CanonicalCodes :
            Upper(size_str.word) = a[1] => size_code = a[2]

\* The places of a use at which parse_size_field has been applied twice.
SizeReparsed == size_pc \in {"reparsed", "tall"}

\* C12: parse_size_field is idempotent: applied to its own result, for a text
\* the table matches as for one it passes through, it returns that result.
C12_ParseSizeIdempotent ==
    SizeReparsed => size_again = size_code

\* A spelled-out size in lower case, with an annotation, has been parsed twice.
C12_Witness ==
    /\ SizeReparsed
    /\ size_str.word = <<"s","m","a","l","l">>
    /\ size_str.trail # <<>>
    /\ size_code = <<"S">>
    /\ size_again = <<"S">>

\* The places of a use at which is_tall_size and get_base_size have answered.
TallAnswered == size_pc = "tall"

\* C13: is_tall_size(code) is true exactly when the code ends in 'T', has at
\* least two characters and is none of 2T, 3T, 4T, 5T; get_base_size takes
\* exactly the one trailing 'T' off a tall code and returns every other code,
\* toddler codes and the empty text included, unchanged.
C13_TallAndBase ==
    TallAnswered =>
        /\ tall = ( /\ Len(tall_code) >= 2
                    /\ tall_code[Len(tall_code)] = "T"
                    /\ tall_code \notin { <<"2","T">>, <<"3","T">>, <<"4","T">>, <<"5","T">> } )
        /\ tall => base_size \o <<"T">> = tall_code
        /\ ~tall => base_size = tall_code

\* A toddler code has been answered for: not tall, and its own base size.
C13_Witness ==
    /\ TallAnswered
    /\ tall_code = <<"2","T">>
    /\ ~tall
    /\ base_size = <<"2","T">>

(***************************************************************************)
(* Properties of the expander, the parser and the column detector.         *)
(***************************************************************************)
\* The step of a run in which process_tall_sizes is called and returns.
TallStep == pc = "parsed" /\ pc' = "expanded"

\* after is before, but for its size, description and tall marks.
SameButTallFields(before, after) ==
    after = [before EXCEPT !.size = after.size,
                           !.description = after.description,
                           !.is_tall = after.is_tall,
                           !.original_size = after.original_size]

\* C14: process_tall_sizes is a one-to-one transform: as many items out as in,
\* in the same order; an item that is not tall comes out unchanged; a tall item
\* keeps its quantity, item_num, color and row number and changes only its
\* size, description and tall marks; the items given are not modified.
C14_TallOneToOne ==
    [][ TallStep =>
          /\ parsed_items' = parsed_items
          /\ Len(tall_items') = Len(parsed_items)
          /\ \A i \in 1..Len(parsed_items) :
                 IF is_tall_size(parsed_items[i].size)
                 THEN SameButTallFields(parsed_items[i], tall_items'[i])
                 ELSE tall_items'[i] = parsed_items[i] ]_vars

\* A tall item and an item that is not tall have gone through the expander.
C14_Witness ==
    /\ pc = "expanded"
    /\ Len(parsed_items) = 2
    /\ is_tall_size(parsed_items[1].size)
    /\ ~is_tall_size(parsed_items[2].size)
    /\ tall_items[1].size # parsed_items[1].size
    /\ tall_items[2] = parsed_items[2]

\* C15: the ' - Tall' append is idempotent: an item whose description already
\* ends in ' - Tall' does not get it a second time, so process_tall_sizes
\* applied to its own result returns that result, and no description holds
\* ' - Tall' twice.
C15_TallAppendIdempotent ==
    AfterExpand =>
        LET again == process_tall_sizes(tall_items)
        IN  /\ again = tall_items
            /\ \A i \in 1..Len(again) :
                   Occurrences(again[i].description, TallSuffix) <= 1

\* The trimmed item_num cell of the row an item was parsed from.
ItemNumCell(item) == Strip(Cell(rows[item.row_num - 1], column_map.item_num))

\* The text reads as a number equal to an integer.
IsWholeNumber(text) ==
    ParseFloat(text).kind = "num" /\ ~ParseFloat(text).fracnz

\* The decimal string of the integer the text reads as.
WholeNumberString(text) == IntToStr(IntOfFloat(ParseFloat(text)))

\* C16, as stated: an item_num cell that, trimmed, reads as a number equal to
\* an integer gives that integer's decimal string as item_num ('112.0' ->
\* '112'); any other cell gives its trimmed text.
C16_ItemNumWholeNumber ==
    AfterParse =>
        \A i \in 1..Len(parsed_items) :
            LET cell == ItemNumCell(parsed_items[i])
            IN  parsed_items[i].item_num =
                    IF IsWholeNumber(cell) THEN WholeNumberString(cell) ELSE cell

\* C16, amended: an item_num cell that, trimmed, holds a '.' and reads as a
\* number equal to an integer gives that integer's decimal string as item_num;
\* a cell without a '.', a cell that does not read as a number and a cell that
\* reads as a number with a fraction give their trimmed text.
C16_ItemNumWithDot ==
    AfterParse =>
        \A i \in 1..Len(parsed_items) :
            LET cell == ItemNumCell(parsed_items[i])
            IN  parsed_items[i].item_num =
                    IF InSeq(cell, ".") /\ IsWholeNumber(cell)
                    THEN WholeNumberString(cell)
                    ELSE cell

\* A file with the item numbers '112.0' and '007' has been parsed: the first
\* is rewritten, the second is kept.
C16_Witness ==
    /\ pc = "parsed"
    /\ Len(parsed_items) = 2
    /\ ItemNumCell(parsed_items[1]) = <<"1","1","2",".","0">>
    /\ parsed_items[1].item_num = <<"1","1","2">>
    /\ ItemNumCell(parsed_items[2]) = <<"0","0","7">>
    /\ parsed_items[2].item_num = <<"0","0","7">>

\* The column a field resolves to under its synonym list: the first column
\* headed, in any letter case, by the first synonym that heads a column at
\* all; None when no synonym heads a column.
ColumnFor(names) ==
    LET lowered  == [j \in 1..Len(headers) |-> Lower(headers[j])]
        heads(k) == { j \in 1..Len(headers) : lowered[j] = names[k] }
        found    == { k \in 1..Len(names) : heads(k) # {} }
    IN  IF found = {} THEN None ELSE Least(heads(Least(found))) - 1

\* C17: detect_columns matches the headers against each field's synonym list
\* exactly and without regard to letter case, and gives each field the column
\* of the first synonym, in the order listed, that occurs among the headers,
\* wherever the columns stand, or None when none occurs.
C17_FirstSynonymWins ==
    pc = "detected" =>
        /\ column_map.qty = ColumnFor(QtyNames)
        /\ column_map.size = ColumnFor(SizeNames)
        /\ column_map.item_num = ColumnFor(ItemNumNames)
        /\ column_map.color = ColumnFor(ColorNames)

\* Headers with 'Style' before 'Item': item_num resolves to the 'Item' column.
C17_Witness ==
    /\ pc = "detected"
    /\ Len(headers) = 5
    /\ headers[1] = <<"S","t","y","l","e">>
    /\ headers[3] = <<"I","t","e","m">>
    /\ column_map.item_num = 2
    /\ column_map.qty = 1

\* The item is what the row at position n of the file, numbered n + 1, parses to.
ItemOfRow(item, n) ==
    /\ n \in 1..Len(rows)
    /\ ~IsEmptyRow(rows[n])
    /\ ParseRow(rows[n], n + 1, column_map).kind = "item"
    /\ ParseRow(rows[n], n + 1, column_map).item = item

\* C18: the items parse_rows_to_items returns are in the order of their rows:
\* their row numbers increase strictly, and an item's row number is the
\* position of its row in the file counted from 2, empty and skipped rows
\* counted too.
C18_ItemsInRowOrder ==
    pc = "parsed" =>
        /\ \A i \in 1..Len(parsed_items) : \A j \in 1..Len(parsed_items) :
               i < j => parsed_items[i].row_num < parsed_items[j].row_num
        /\ \A i \in 1..Len(parsed_items) :
               ItemOfRow(parsed_items[i], parsed_items[i].row_num - 1)

\* The first row of the file is empty and the second became an item: the item
\* has row number 3.
C18_Witness ==
    /\ pc = "parsed"
    /\ Len(rows) = 2
    /\ IsEmptyRow(rows[1])
    /\ Len(parsed_items) = 1
    /\ parsed_items[1].row_num = 3

(***************************************************************************)
(* Properties of the description enrichment.                               *)
(***************************************************************************)
\* The number of vendor lookups made for the style numbers that are style,
\* letter case aside.
LookupsOfStyle(style) ==
    Cardinality({ s \in DOMAIN lookups : lookups[s] >= 1 /\ Upper(s) = Upper(style) })

\* C19: in one call of enrich_items_with_descriptions the vendor lookup is made
\* at most once for each style number, however many records share it, where
\* style numbers that differ only in letter case ('abc', 'ABC') are one style.
C19_OneLookupPerStyle ==
    pc = "done" =>
        /\ \A s \in DOMAIN lookups : lookups[s] <= 1
        /\ \A i \in 1..Len(consolidated) :
               LookupsOfStyle(Strip(consolidated[i].item_num)) <= 1

\* The step of a run in which enrich_items_with_descriptions is called and
\* returns.
EnrichStep == pc = "consolidated" /\ pc' = "done"

\* What the lookup for the record's style returned in the call, NoDescription
\* when none was made.
Looked(record) ==
    IF Strip(record.item_num) \in DOMAIN description_cache'
    THEN description_cache'[Strip(record.item_num)]
    ELSE NoDescription

\* C20: a record whose style's lookup returned a description D gets D as its
\* description, or D followed by ' - Tall' when its description ended in
\* ' - Tall'; when the lookup returned nothing, or no vendor is configured, the
\* description stays as it was; no other field of the record changes.
C20_EnrichDescription ==
    [][ EnrichStep =>
          /\ Len(consolidated') = Len(consolidated)
          /\ \A i \in 1..Len(consolidated) :
                 LET before == consolidated[i]
                     D      == Looked(before)
                 IN  consolidated'[i] =
                         [before EXCEPT !.description =
                              IF D = NoDescription THEN before.description
                              ELSE IF EndsWith(before.description, TallSuffix)
                                   THEN D \o TallSuffix
                                   ELSE D] ]_vars

\* A record of a tall size has taken the vendor's description and kept its
\* ' - Tall'.
C20_Witness ==
    /\ pc = "done"
    /\ \E i \in 1..Len(consolidated) :
           /\ Strip(consolidated[i].item_num) \in DOMAIN description_cache
           /\ description_cache[Strip(consolidated[i].item_num)] = VendorDescription
           /\ consolidated[i].description = VendorDescription \o TallSuffix

(***************************************************************************)
(* One outcome for each row.                                               *)
(***************************************************************************)
\* The rows of the file that are not entirely empty.
RowsNotEmpty == { n \in 1..Len(rows) : ~IsEmptyRow(rows[n]) }

\* C27: with the required columns resolved, every row that is not entirely
\* empty gives exactly one outcome, one item or one warning, so the items and
\* the warnings of parse_rows_to_items together are as many as those rows.
C27_OneOutcomePerRow ==
    ParseAttempted =>
        Len(parsed_items) + Len(warnings) = Cardinality(RowsNotEmpty)

(***************************************************************************)
(* Properties of the vendor lookups.                                       *)
(***************************************************************************)
\* A turn of the loop of lines 673-676, and the return of the call.
LookupStep == vendor_pc = "looking" /\ unique_styles # {}

ReturnStep == vendor_pc = "looking" /\ unique_styles = {}

\* C21: a vendor lookup that fails (transport error, authentication failure,
\* malformed response, SOAP client unavailable) counts as no description for
\* the style: enrich_items_with_descriptions never raises, goes on with the
\* remaining styles, and returns all the records.
C21_FailureIsNoDescription ==
    [][ /\ vendor_pc' # "raised"
        /\ (LookupStep /\ last_lookup'.failed # {}) =>
              /\ \A i \in 1..Len(last_lookup'.consulted) :
                    last_lookup'.consulted[i] \in last_lookup'.failed
                        => last_lookup'.answers[i] = NoDescription
              /\ vendor_pc' = "looking"
              /\ unique_styles' = unique_styles \ {last_lookup'.style}
        /\ ReturnStep =>
              /\ Len(items') = Len(items)
              /\ \A i \in 1..Len(items) :
                    /\ items'[i].item_num = items[i].item_num
                    /\ Strip(items[i].item_num) \in DOMAIN style_cache
      ]_vars

\* The catalog request failed at the first style, Sanmar failed at the last
\* one, and the call returned its two records.
C21_Witness ==
    /\ vendor_pc = "ready"
    /\ enrich_calls = 1
    /\ ssactivewear_cache_attempted
    /\ ssactivewear_cache = NoCatalog
    /\ last_lookup.failed = {"sanmar"}
    /\ Len(items) = 2

\* C22: with vendor "auto", lookup_product_description consults SSActivewear
\* first and Sanmar only if SSActivewear returned no description; a vendor
\* without credentials is never called; the result is none only when every
\* consulted vendor returned nothing.
C22_AutoOrder ==
    LET consulted == last_lookup.consulted
        answers   == last_lookup.answers
    IN  /\ consulted \in {<<>>, <<"ssactivewear">>, <<"sanmar">>,
                          <<"ssactivewear", "sanmar">>}
        /\ consulted = <<"ssactivewear", "sanmar">> => answers[1] = NoDescription
        /\ InSeq(consulted, "ssactivewear") => has_ssactivewear
        /\ InSeq(consulted, "sanmar") => has_sanmar
        /\ last_lookup.description = NoDescription
              => \A i \in 1..Len(answers) : answers[i] = NoDescription

\* SSActivewear was asked and had nothing, Sanmar was asked next and answered.
C22_Witness ==
    /\ last_lookup.consulted = <<"ssactivewear", "sanmar">>
    /\ last_lookup.answers[1] = NoDescription
    /\ last_lookup.description # NoDescription

\* The catalog was asked for and no list came of it.
CatalogAttemptFailed ==
    ssactivewear_cache_attempted /\ ssactivewear_cache.kind # "list"

\* C23: over the lookups of one process the SSActivewear catalog is requested
\* at most once, whether the attempt succeeded or failed; after a failed
\* attempt every SSActivewear lookup returns none without a new request; a
\* populated cache is never modified.
C23_CatalogFetchedOnce ==
    [][ /\ catalog_requests' <= 1
        /\ ssactivewear_cache_attempted => catalog_requests' = catalog_requests
        /\ ssactivewear_cache # NoCatalog => ssactivewear_cache' = ssactivewear_cache
        /\ (LookupStep /\ CatalogAttemptFailed /\ has_ssactivewear) =>
              /\ last_lookup'.consulted[1] = "ssactivewear"
              /\ ~last_lookup'.requested
              /\ last_lookup'.answers[1] = NoDescription
      ]_vars

\* A lookup after the failed attempt: SSActivewear was consulted and no
\* request went out.
C23_Witness ==
    /\ catalog_requests = 1
    /\ ssactivewear_cache_attempted
    /\ ssactivewear_cache = NoCatalog
    /\ Len(last_lookup.consulted) > 0
    /\ last_lookup.consulted[1] = "ssactivewear"
    /\ ~last_lookup.requested

\* C24: for a given style number lookup_sanmar_description returns the same
\* description whether the product is fetched from the service or served from
\* the Sanmar cache of the process.
C24_SanmarCacheSameDescription ==
    last_lookup.from_cache =>
        last_lookup.answers[Len(last_lookup.answers)]
            = sanmar_fetched[Upper(Strip(last_lookup.style))]

(***************************************************************************)
(* Properties of WorkerThread.run.                                         *)
(***************************************************************************)
\* C25: create_quote, create_line_item_group and the line-item calls are made
\* only after read_csv has returned a list that is not empty; when the file
\* cannot be read, lacks the required columns or holds no valid item, the run
\* ends as a failure with no create call, and the outcome of zero items has
\* its own message, 'No valid items found in file.'.
C25_CreateOnlyAfterRecords ==
    worker_pc # "start" =>
        \E r \in {read_csv(csv_file)} :
            /\ api_calls # <<>> =>
                  /\ r.raised = ""
                  /\ r.consolidated # <<>>
                  /\ worker_records = r.consolidated
            /\ (r.raised # "" \/ r.consolidated = <<>>) =>
                  /\ worker_pc = "finished"
                  /\ api_calls = <<>>
                  /\ Len(finished_signals) = 1
                  /\ ~finished_signals[1].success
                  /\ finished_signals[1].message = NoValidItems
                        <=> (r.raised = "" /\ r.consolidated = <<>>)
                  /\ r.raised # "" =>
                        finished_signals[1].message = ErrorMessage(r.raised)

\* A file with a row and no valid item: the run has ended with the message
\* of zero items.
C25_Witness ==
    /\ worker_pc = "finished"
    /\ csv_file.rows # <<>>
    /\ api_calls = <<>>
    /\ finished_signals = <<[success |-> FALSE, message |-> NoValidItems]>>

\* The single calls made so far.
SingleCalls ==
    { k \in 1..Len(api_calls) : api_calls[k].call = "create_line_item_single" }

\* C26: for every record, the (wire size enum, count) pairs that
\* create_line_item_single sends are those create_line_items_batch sends for
\* the record, entries with an empty size included (sent as 'size_other' with
\* their quantity), so the counts sent add up to the record's total_quantity.
C26_SingleSendsBatchSizes ==
    \A k \in SingleCalls :
        LET position == api_calls[k].position
            sent     == api_calls[k].inputs[1].sizes
        IN  /\ sent = BatchInputs(worker_records)[position].sizes
            /\ SumCounts(sent) = worker_records[position].total_quantity

\* The positions of the records created as line items.
CreatedPositions == { created[k] : k \in 1..Len(created) }

\* C29: run() reports success only if every record was created as a line
\* item, by the batch call or by the single calls with their one retry; if a
\* record could not be created the run is reported as failed.
C29_SuccessMeansAllCreated ==
    (worker_pc = "finished" /\ finished_signals # <<>>
        /\ finished_signals[Len(finished_signals)].success)
    => CreatedPositions = 1..Len(worker_records)

\* The steps run() has made: it has read the file, made its create calls,
\* emitted finished_signal.
RunSteps ==
    (IF worker_pc = "start" THEN 0 ELSE 1) + Len(api_calls)
    + (IF worker_pc = "finished" THEN 1 ELSE 0)

\* C30: every execution of run() emits finished_signal exactly once, after
\* all of its log signals, on every path: zero items, read failure, failure
\* of the quote or of the group, batch success, batch failure followed by
\* single creates and retries of which any number fail.  Never more than one
\* emission, none before the return of run(), one at the return, with no
\* log after it; and every step of run() counts towards a number of steps
\* that the rows of the file bound, so run() does return.
C30_FinishedExactlyOnce ==
    /\ [](/\ Len(finished_signals) <= 1
          /\ finished_signals # <<>> =>
                (worker_pc = "finished" /\ last_signal = "finished")
          /\ worker_pc = "finished" => Len(finished_signals) = 1)
    /\ [][/\ RunSteps' > RunSteps
          /\ RunSteps' <= 5 + 2 * Len(csv_file.rows)]_vars

\* The batch call failed, both single creates failed, one of them again at
\* its retry, and the run has emitted finished_signal once, last of all.
C30_Witness ==
    /\ worker_pc = "finished"
    /\ Len(worker_records) = 2
    /\ Len(api_calls) = 6
    /\ created = <<>>
    /\ Len(finished_signals) = 1
    /\ last_signal = "finished"

(***************************************************************************)
(* Properties of the main window.                                          *)
(***************************************************************************)
\* C28: while a quote-creation WorkerThread runs, the Create button stays
\* disabled under every sequence of user actions the main window still
\* allows, the Settings dialog opened and accepted included; so at most one
\* worker runs at a time and a running worker is never replaced by another.
C28_CreateDisabledWhileRunning ==
    running # {} =>
        /\ ~create_btn
        /\ Cardinality(running) = 1
        /\ worker \in running

====
